---- MODULE Spec2Model ----
(***************************************************************************)
(* Filets (joemaddalone/filets): a static class of synchronous helpers     *)
(* over node:fs and node:path.  The library itself holds no state; the     *)
(* state of the model is the filesystem the helpers act on, together with  *)
(* a record of the last call (its arguments and its outcome), the          *)
(* filesystem as it was before that call, and, for the calls that are      *)
(* followed step by step, the position of every caller in its call.        *)
(*                                                                         *)
(* A path is the sequence of its segments below the base directory Root.  *)
(* The filesystem maps every path to an entry: nothing, a directory, or a  *)
(* regular file with its bytes.  node:fs is modelled by what POSIX and     *)
(* Node document for each call the library makes; its limits (path depth,  *)
(* number of entries) are real failures (ENAMETOOLONG, ENOSPC), and a      *)
(* call-time set `deny` of paths the process may not create, modify or     *)
(* read makes the corresponding primitive fail with EACCES.                *)
(***************************************************************************)
EXTENDS Integers, Sequences, FiniteSets, TLC

VARIABLES fs, pre, last, run

vars == <<fs, pre, last, run>>

-----------------------------------------------------------------------------
(* Bounds of the model *)

\* the filesystem refuses to hold more than MaxEntries entries below Root (ENOSPC)
MaxEntries == 4
\* text arguments have at most MaxLen UTF-16 code units
MaxLen == 2

\* entry names; a path has at most three segments below Root (ENAMETOOLONG beyond)
Names == {"a", "b"}

Root == <<>>

Paths ==
  {Root} \cup {<<n1>> : n1 \in Names}
         \cup {<<n1, n2>> : n1 \in Names, n2 \in Names}
         \cup {<<n1, n2, n3>> : n1 \in Names, n2 \in Names, n3 \in Names}

\* the orders in which the OS may list the entries of a directory
Orders == {<<"a", "b">>, <<"b", "a">>}

-----------------------------------------------------------------------------
(* Entries and trees *)

Absent == [kind |-> "none", data |-> <<>>]
Dir == [kind |-> "dir", data |-> <<>>]
File(bytes) == [kind |-> "file", data |-> bytes]

EmptyTree == [p \in Paths |-> IF p = Root THEN Dir ELSE Absent]

At(f, p) == IF p \in Paths THEN f[p] ELSE Absent

IsPrefix(p, q) == Len(p) <= Len(q) /\ SubSeq(q, 1, Len(p)) = p

Under(p, q) == IsPrefix(p, q) /\ p # q

Count(f) == Cardinality({p \in Paths : p # Root /\ f[p].kind # "none"})

\* the part of q below p, for q at or under p
Rel(p, q) == SubSeq(q, Len(p) + 1, Len(q))

-----------------------------------------------------------------------------
(* node:path *)

\* path.dirname: the directory of the base directory is the base directory
getDirectoryName(p) == IF p = Root THEN Root ELSE SubSeq(p, 1, Len(p) - 1)

\* path.join of a directory and one entry name
joinPaths(d, item) == Append(d, item)

-----------------------------------------------------------------------------
(* Text and its UTF-8 encoding.  A text is a sequence of UTF-16 code       *)
(* units: "x" and "\n" are ordinary characters, "H" is a high surrogate,   *)
(* "L" a low surrogate and "R" the replacement character U+FFFD.  A file   *)
(* holds encoded code points: "P" is the four-byte code point of the pair  *)
(* H L, "R" the three bytes EF BF BD.                                      *)

Chars == {"x", "\n", "H", "L"}

Texts == UNION {[1..n -> Chars] : n \in 0..MaxLen}

\* the texts the tree-shaped specification writes
PlainTexts == {<<>>, <<"x">>}

\* the longest file the calls of the text specification grow by appending
FileMax == MaxLen + 1

RECURSIVE utf8Encode(_)
utf8Encode(s) ==
  IF s = <<>> THEN <<>>
  ELSE IF s[1] = "H" /\ Len(s) >= 2 /\ s[2] = "L"
       THEN <<"P">> \o utf8Encode(SubSeq(s, 3, Len(s)))
  ELSE IF s[1] \in {"H", "L"}
       THEN <<"R">> \o utf8Encode(Tail(s))
  ELSE <<s[1]>> \o utf8Encode(Tail(s))

RECURSIVE utf8Decode(_)
utf8Decode(b) ==
  IF b = <<>> THEN <<>>
  ELSE IF b[1] = "P" THEN <<"H", "L">> \o utf8Decode(Tail(b))
  ELSE <<b[1]>> \o utf8Decode(Tail(b))

\* a text with no unpaired surrogate
RECURSIVE WellFormed(_)
WellFormed(s) ==
  IF s = <<>> THEN TRUE
  ELSE IF s[1] = "H" THEN Len(s) >= 2 /\ s[2] = "L" /\ WellFormed(SubSeq(s, 3, Len(s)))
  ELSE s[1] # "L" /\ WellFormed(Tail(s))

-----------------------------------------------------------------------------
(* JSON.  A value is null, a boolean, a number, a string of code units, an *)
(* array of values, or an object: its members in the order of its own      *)
(* properties, with distinct keys.  A JSON text is a sequence of           *)
(* characters, one string each.                                            *)

JNull == [t |-> "null"]
JBool(b) == [t |-> "boolean", b |-> b]
JNum(n) == [t |-> "number", n |-> n]
JStr(s) == [t |-> "string", s |-> s]
JArr(xs) == [t |-> "array", items |-> xs]
JObj(ms) == [t |-> "object", members |-> ms]
Member(k, v) == [key |-> k, val |-> v]

\* the third argument of JSON.stringify(data, null, 2)
Indent == 2

Spaces(n) == [i \in 1..n |-> " "]

DigitChars == <<"0", "1", "2", "3", "4", "5", "6", "7", "8", "9">>

RECURSIVE Digits(_)
Digits(n) ==
  IF n < 10 THEN <<DigitChars[n + 1]>>
  ELSE Digits(n \div 10) \o <<DigitChars[(n % 10) + 1]>>

NumberText(n) == IF n < 0 THEN <<"-">> \o Digits(-n) ELSE Digits(n)

\* QuoteJSONString: the quote, the backslash and control characters are
\* escaped, and so is a surrogate that has no partner
RECURSIVE QuoteChars(_)
QuoteChars(s) ==
  IF s = <<>> THEN <<>>
  ELSE IF s[1] = "H" /\ Len(s) >= 2 /\ s[2] = "L"
       THEN <<"H", "L">> \o QuoteChars(SubSeq(s, 3, Len(s)))
  ELSE (CASE s[1] = "\"" -> <<"\\", "\"">>
          [] s[1] = "\\" -> <<"\\", "\\">>
          [] s[1] = "\n" -> <<"\\", "n">>
          [] s[1] = "H" -> <<"\\", "u", "d", "8", "0", "0">>
          [] s[1] = "L" -> <<"\\", "u", "d", "c", "0", "0">>
          [] OTHER -> <<s[1]>>)
       \o QuoteChars(Tail(s))

Quote(s) == <<"\"">> \o QuoteChars(s) \o <<"\"">>

RECURSIVE stringify(_, _)
RECURSIVE stringifyItems(_, _, _)
RECURSIVE stringifyMembers(_, _, _)

\* the text of v as a value nested depth levels deep
stringify(v, depth) ==
  CASE v.t = "null" -> <<"n", "u", "l", "l">>
    [] v.t = "boolean" -> IF v.b THEN <<"t", "r", "u", "e">> ELSE <<"f", "a", "l", "s", "e">>
    [] v.t = "number" -> NumberText(v.n)
    [] v.t = "string" -> Quote(v.s)
    [] v.t = "array" ->
         IF v.items = <<>> THEN <<"[", "]">>
         ELSE <<"[", "\n">> \o stringifyItems(v.items, 1, depth + 1)
              \o <<"\n">> \o Spaces(Indent * depth) \o <<"]">>
    [] v.t = "object" ->
         IF v.members = <<>> THEN <<"{", "}">>
         ELSE <<"{", "\n">> \o stringifyMembers(v.members, 1, depth + 1)
              \o <<"\n">> \o Spaces(Indent * depth) \o <<"}">>

stringifyItems(xs, i, depth) ==
  Spaces(Indent * depth) \o stringify(xs[i], depth)
  \o (IF i = Len(xs) THEN <<>> ELSE <<",", "\n">> \o stringifyItems(xs, i + 1, depth))

stringifyMembers(ms, i, depth) ==
  Spaces(Indent * depth) \o Quote(ms[i].key) \o <<":", " ">> \o stringify(ms[i].val, depth)
  \o (IF i = Len(ms) THEN <<>> ELSE <<",", "\n">> \o stringifyMembers(ms, i + 1, depth))

\* JSON.stringify(data, null, 2)
JSONStringify(data) == stringify(data, 0)

\* The parser: each step yields whether it succeeded, the value read and the
\* position after it
ParseFail == [ok |-> FALSE, val |-> JNull, pos |-> 0]
Parsed(v, i) == [ok |-> TRUE, val |-> v, pos |-> i]

CharAt(t, i) == IF i <= Len(t) THEN t[i] ELSE ""

RECURSIVE SkipWs(_, _)
SkipWs(t, i) == IF CharAt(t, i) \in {" ", "\n"} THEN SkipWs(t, i + 1) ELSE i

Literal(t, i, word) ==
  i + Len(word) - 1 <= Len(t) /\ SubSeq(t, i, i + Len(word) - 1) = word

\* the characters of a string after its opening quote
RECURSIVE ParseChars(_, _, _)
ParseChars(t, i, acc) ==
  LET c == CharAt(t, i)
      e == CharAt(t, i + 1)
  IN  IF c = "" \/ c = "\n" THEN ParseFail
      ELSE IF c = "\"" THEN Parsed(JStr(acc), i + 1)
      ELSE IF c # "\\" THEN ParseChars(t, i + 1, Append(acc, c))
      ELSE IF e \in {"\"", "\\"} THEN ParseChars(t, i + 2, Append(acc, e))
      ELSE IF e = "n" THEN ParseChars(t, i + 2, Append(acc, "\n"))
      ELSE IF e = "u" /\ Literal(t, i + 2, <<"d", "8", "0", "0">>)
           THEN ParseChars(t, i + 6, Append(acc, "H"))
      ELSE IF e = "u" /\ Literal(t, i + 2, <<"d", "c", "0", "0">>)
           THEN ParseChars(t, i + 6, Append(acc, "L"))
      ELSE ParseFail

ParseString(t, i) == IF CharAt(t, i) = "\"" THEN ParseChars(t, i + 1, <<>>) ELSE ParseFail

IsDigit(c) == \E d \in 1..Len(DigitChars) : DigitChars[d] = c
DigitValue(c) == (CHOOSE d \in 1..Len(DigitChars) : DigitChars[d] = c) - 1

RECURSIVE ParseDigits(_, _, _)
ParseDigits(t, i, n) ==
  IF IsDigit(CharAt(t, i)) THEN ParseDigits(t, i + 1, n * 10 + DigitValue(CharAt(t, i)))
  ELSE Parsed(JNum(n), i)

\* an integer: a minus sign at most, no leading zero
ParseNumber(t, i) ==
  LET neg == CharAt(t, i) = "-"
      j == IF neg THEN i + 1 ELSE i
      r == ParseDigits(t, j, 0)
  IN  IF ~IsDigit(CharAt(t, j)) THEN ParseFail
      ELSE IF CharAt(t, j) = "0" /\ IsDigit(CharAt(t, j + 1)) THEN ParseFail
      ELSE Parsed(JNum(IF neg THEN 0 - r.val.n ELSE r.val.n), r.pos)

\* the members read so far with key k set to v: a repeated key keeps its
\* place and takes the later value
SetMember(ms, k, v) ==
  IF \E i \in 1..Len(ms) : ms[i].key = k
  THEN [i \in 1..Len(ms) |-> IF ms[i].key = k THEN Member(k, v) ELSE ms[i]]
  ELSE Append(ms, Member(k, v))

RECURSIVE ParseValue(_, _)
RECURSIVE ParseItems(_, _, _)
RECURSIVE ParseMembers(_, _, _)

ParseValue(t, from) ==
  LET i == SkipWs(t, from)
      c == CharAt(t, i)
      j == SkipWs(t, i + 1)
  IN  CASE c = "n" -> IF Literal(t, i, <<"n", "u", "l", "l">>)
                      THEN Parsed(JNull, i + 4) ELSE ParseFail
        [] c = "t" -> IF Literal(t, i, <<"t", "r", "u", "e">>)
                      THEN Parsed(JBool(TRUE), i + 4) ELSE ParseFail
        [] c = "f" -> IF Literal(t, i, <<"f", "a", "l", "s", "e">>)
                      THEN Parsed(JBool(FALSE), i + 5) ELSE ParseFail
        [] c = "\"" -> ParseString(t, i)
        [] c = "-" \/ IsDigit(c) -> ParseNumber(t, i)
        [] c = "[" -> IF CharAt(t, j) = "]" THEN Parsed(JArr(<<>>), j + 1)
                      ELSE ParseItems(t, j, <<>>)
        [] c = "{" -> IF CharAt(t, j) = "}" THEN Parsed(JObj(<<>>), j + 1)
                      ELSE ParseMembers(t, j, <<>>)
        [] OTHER -> ParseFail

\* the items of an array from position i on
ParseItems(t, i, acc) ==
  LET r == ParseValue(t, i)
      j == SkipWs(t, r.pos)
  IN  IF ~r.ok THEN ParseFail
      ELSE IF CharAt(t, j) = "," THEN ParseItems(t, j + 1, Append(acc, r.val))
      ELSE IF CharAt(t, j) = "]" THEN Parsed(JArr(Append(acc, r.val)), j + 1)
      ELSE ParseFail

\* the members of an object from position i on
ParseMembers(t, i, acc) ==
  LET k == ParseString(t, SkipWs(t, i))
      colon == SkipWs(t, k.pos)
      r == ParseValue(t, colon + 1)
      j == SkipWs(t, r.pos)
  IN  IF ~k.ok \/ CharAt(t, colon) # ":" THEN ParseFail
      ELSE IF ~r.ok THEN ParseFail
      ELSE IF CharAt(t, j) = "," THEN ParseMembers(t, j + 1, SetMember(acc, k.val.s, r.val))
      ELSE IF CharAt(t, j) = "}" THEN Parsed(JObj(SetMember(acc, k.val.s, r.val)), j + 1)
      ELSE ParseFail

\* JSON.parse(json): one value and nothing but white space after it
JSONParse(json) ==
  LET r == ParseValue(json, 1)
  IN  IF r.ok /\ SkipWs(json, r.pos) = Len(json) + 1 THEN r ELSE ParseFail

\* the values the JSON specification writes
JsonStrings ==
  {<<>>, <<"x">>, <<"\"">>, <<"\\", "n">>, <<"\n", "x">>, <<"H">>, <<"L", "x">>, <<"H", "L">>}

JsonNumbers == {0, 7, 10, 120, 0 - 1, 0 - 35}

JsonScalars ==
  {JNull, JBool(TRUE), JBool(FALSE)}
    \cup {JNum(n) : n \in JsonNumbers}
    \cup {JStr(s) : s \in JsonStrings}

JsonKeys == {<<"k">>, <<"\"">>, <<"H">>}

\* some scalars and some containers to nest
JsonFew == {JNull, JNum(0 - 1), JStr(<<"\"">>)}

JsonInner ==
  {JArr(<<>>), JObj(<<>>), JArr(<<JNum(10), JStr(<<"x">>)>>),
   JObj(<<Member(<<"k">>, JNull)>>)}

JsonValues ==
  JsonScalars
    \cup {JArr(<<>>), JObj(<<>>)}
    \cup {JArr(<<v>>) : v \in JsonScalars \cup JsonInner}
    \cup {JArr(<<v, w>>) : v \in JsonFew, w \in JsonFew}
    \cup {JObj(<<Member(k, v)>>) : k \in JsonKeys, v \in JsonScalars}
    \cup {JObj(<<Member(<<"k">>, v)>>) : v \in JsonInner}
    \cup {JObj(<<Member(<<"k">>, v), Member(<<"\"">>, w)>>) : v \in JsonFew, w \in JsonInner}

-----------------------------------------------------------------------------
(* node:fs.  Every primitive yields the filesystem it leaves and the code  *)
(* of the error it throws ("" when it returns).                            *)

Done(f) == [fs |-> f, err |-> ""]
Fail(f, code) == [fs |-> f, err |-> code]

\* why a path that has no entry cannot be resolved
PathErr(f, p) ==
  IF p \notin Paths THEN "ENAMETOOLONG"
  ELSE IF \E q \in Paths : Under(q, p) /\ f[q].kind = "file" THEN "ENOTDIR"
  ELSE "ENOENT"

existsSync(f, p) == At(f, p).kind # "none"

statSync(f, p) ==
  LET e == At(f, p)
  IN  IF e.kind = "none"
      THEN [err |-> PathErr(f, p), isFile |-> FALSE, isDirectory |-> FALSE]
      ELSE [err |-> "", isFile |-> e.kind = "file", isDirectory |-> e.kind = "dir"]

\* mkdir -p from segment i of p on: ancestors first, stopping at the first failure
RECURSIVE mkdirFrom(_, _, _, _)
mkdirFrom(f, p, i, deny) ==
  IF i > Len(p) THEN Done(f)
  ELSE LET q == SubSeq(p, 1, i)
       IN  IF f[q].kind = "dir" THEN mkdirFrom(f, p, i + 1, deny)
           ELSE IF q \in deny THEN Fail(f, "EACCES")
           ELSE IF Count(f) >= MaxEntries THEN Fail(f, "ENOSPC")
           ELSE mkdirFrom([f EXCEPT ![q] = Dir], p, i + 1, deny)

\* fs.mkdirSync(p, { recursive: true, mode: 0o755 })
mkdirSync(f, p, deny) ==
  IF p \notin Paths THEN Fail(f, "ENAMETOOLONG")
  ELSE IF f[p].kind = "dir" THEN Done(f)
  ELSE IF f[p].kind = "file" THEN Fail(f, "EEXIST")
  ELSE IF PathErr(f, p) = "ENOTDIR" THEN Fail(f, "ENOTDIR")
  ELSE mkdirFrom(f, p, 1, deny)

\* the checks open(2) makes before a file at p is created or written
OpenForWrite(f, p, deny) ==
  IF p \notin Paths THEN "ENAMETOOLONG"
  ELSE IF f[p].kind = "dir" THEN "EISDIR"
  ELSE IF f[getDirectoryName(p)].kind # "dir" THEN PathErr(f, p)
  ELSE IF p \in deny THEN "EACCES"
  ELSE IF f[p].kind = "none" /\ Count(f) >= MaxEntries THEN "ENOSPC"
  ELSE ""

StoreBytes(f, p, bytes, deny) ==
  LET e == OpenForWrite(f, p, deny)
  IN  IF e # "" THEN Fail(f, e)
      ELSE Done([f EXCEPT ![p] = File(bytes)])

\* fs.writeFileSync(p, content, "utf8"): create or truncate, then write
writeFileSync(f, p, content, deny) == StoreBytes(f, p, utf8Encode(content), deny)

\* fs.appendFileSync(p, content, "utf8"): create if absent, write at the end
appendFileSync(f, p, content, deny) ==
  StoreBytes(f, p, At(f, p).data \o utf8Encode(content), deny)

\* fs.readFileSync(p, "utf8")
readFileSync(f, p, deny) ==
  LET e == At(f, p)
  IN  IF e.kind = "none" THEN [err |-> PathErr(f, p), text |-> <<>>]
      ELSE IF e.kind = "dir" THEN [err |-> "EISDIR", text |-> <<>>]
      ELSE IF p \in deny THEN [err |-> "EACCES", text |-> <<>>]
      ELSE [err |-> "", text |-> utf8Decode(e.data)]

\* fs.unlinkSync(p)
unlinkSync(f, p, deny) ==
  LET e == At(f, p)
  IN  IF e.kind = "none" THEN Fail(f, PathErr(f, p))
      ELSE IF e.kind = "dir" THEN Fail(f, "EISDIR")
      ELSE IF p \in deny THEN Fail(f, "EACCES")
      ELSE Done([f EXCEPT ![p] = Absent])

RemoveTree(f, p) == [q \in Paths |-> IF q # Root /\ IsPrefix(p, q) THEN Absent ELSE f[q]]

\* fs.rmSync(p, { recursive: true, force: true }); the base directory is a
\* mount point: its content goes, the directory itself is busy
rmSync(f, p, deny) ==
  IF At(f, p).kind = "none" THEN Done(f)
  ELSE IF p \in deny THEN Fail(f, "EACCES")
  ELSE IF p = Root THEN Fail(RemoveTree(f, p), "EBUSY")
  ELSE Done(RemoveTree(f, p))

\* fs.copyFileSync(src, dest): dest is created or overwritten
copyFileSync(f, src, dest, deny) ==
  LET e == At(f, src)
      w == OpenForWrite(f, dest, deny)
  IN  IF e.kind = "none" THEN Fail(f, PathErr(f, src))
      ELSE IF e.kind = "dir" THEN Fail(f, "EISDIR")
      ELSE IF w # "" THEN Fail(f, w)
      ELSE Done([f EXCEPT ![dest] = File(e.data)])

\* the tree with the entry (and subtree) at old moved to new
MoveTree(f, old, new) ==
  [q \in Paths |->
     IF IsPrefix(new, q) THEN At(f, old \o Rel(new, q))
     ELSE IF IsPrefix(old, q) THEN Absent
     ELSE f[q]]

\* fs.renameSync(old, new): rename(2)
renameSync(f, old, new, deny) ==
  LET e == At(f, old)
      n == At(f, new)
  IN  IF e.kind = "none" THEN Fail(f, PathErr(f, old))
      ELSE IF new \notin Paths THEN Fail(f, "ENAMETOOLONG")
      ELSE IF old = new THEN Done(f)
      ELSE IF old = Root \/ new = Root THEN Fail(f, "EBUSY")
      ELSE IF f[getDirectoryName(new)].kind # "dir" THEN Fail(f, PathErr(f, new))
      ELSE IF e.kind = "dir" /\ Under(old, new) THEN Fail(f, "EINVAL")
      ELSE IF e.kind = "dir" /\ n.kind = "file" THEN Fail(f, "ENOTDIR")
      ELSE IF e.kind = "dir" /\ n.kind = "dir"
              /\ \E q \in Paths : Under(new, q) /\ f[q].kind # "none"
           THEN Fail(f, "ENOTEMPTY")
      ELSE IF e.kind = "file" /\ n.kind = "dir" THEN Fail(f, "EISDIR")
      ELSE IF old \in deny \/ new \in deny THEN Fail(f, "EACCES")
      ELSE IF \E q \in Paths : IsPrefix(old, q) /\ f[q].kind # "none"
                                /\ new \o Rel(old, q) \notin Paths
           THEN Fail(f, "ENAMETOOLONG")
      ELSE Done(MoveTree(f, old, new))

RECURSIVE Listing(_, _, _, _)
Listing(f, p, ord, i) ==
  IF i > Len(ord) THEN <<>>
  ELSE (IF At(f, joinPaths(p, ord[i])).kind # "none" THEN <<ord[i]>> ELSE <<>>)
       \o Listing(f, p, ord, i + 1)

\* fs.readdirSync(p): the entry names of one level, in the order ord of the OS
readdirSync(f, p, ord) ==
  LET e == At(f, p)
  IN  IF e.kind = "none" THEN [err |-> PathErr(f, p), names |-> <<>>]
      ELSE IF e.kind = "file" THEN [err |-> "ENOTDIR", names |-> <<>>]
      ELSE [err |-> "", names |-> Listing(f, p, ord, 1)]

\* fs.readdirSync(p) by a process that may be refused the directory
readdirSyncAs(f, p, ord, deny) ==
  IF At(f, p).kind = "dir" /\ p \in deny THEN [err |-> "EACCES", names |-> <<>>]
  ELSE readdirSync(f, p, ord)

-----------------------------------------------------------------------------
(* Errors and results.  A JavaScript Error is its message: the prefixes    *)
(* the catch blocks put before it, outermost first, then the message of    *)
(* the error first thrown (the code of an OS error, or the text of an      *)
(* Error the library creates, with the path it names).                     *)

NoErr == [wraps |-> <<>>, cause |-> "", arg |-> <<>>]
OsError(code) == [wraps |-> <<>>, cause |-> code, arg |-> <<>>]
\* the SyntaxError of JSON.parse
SyntaxError == [wraps |-> <<>>, cause |-> "SyntaxError", arg |-> <<>>]
NewError(text, p) == [wraps |-> <<>>, cause |-> text, arg |-> <<p>>]

\* a catch that leaves an error alone when it carries a prefix already
RethrowOnce(prefix, e) == IF e.wraps = <<>> THEN [e EXCEPT !.wraps = <<prefix>>] ELSE e

\* new Error(`${prefix}: ${error.message}`)
Rethrow(prefix, e) == [e EXCEPT !.wraps = <<prefix>> \o @]

Returns(f) ==
  [fs |-> f, err |-> NoErr, bool |-> FALSE, text |-> <<>>, list |-> <<>>, value |-> JNull]
ReturnsBool(f, b) == [Returns(f) EXCEPT !.bool = b]
ReturnsText(f, s) == [Returns(f) EXCEPT !.text = s]
ReturnsList(f, l) == [Returns(f) EXCEPT !.list = l]
ReturnsValue(f, v) == [Returns(f) EXCEPT !.value = v]
Throws(f, e) == [Returns(f) EXCEPT !.err = e]

\* the outcome of a node:fs call that returns nothing
FromFs(r) == IF r.err = "" THEN Returns(r.fs) ELSE Throws(r.fs, OsError(r.err))

\* try { ... } catch (error) { throw new Error(`${prefix}: ${error.message}`) }
TryCatch(prefix, r) == IF r.err = NoErr THEN r ELSE Throws(r.fs, Rethrow(prefix, r.err))

\* try { ... } catch { return false }
CatchFalse(r) == IF r.err = NoErr THEN r ELSE ReturnsBool(r.fs, FALSE)

-----------------------------------------------------------------------------
(* Filets *)

ensureDirectoryExists(f, dirPath, deny) ==
  TryCatch("Failed to create directory",
    IF ~existsSync(f, dirPath)
    THEN FromFs(mkdirSync(f, dirPath, deny))
    ELSE Returns(f))

readTextFile(f, filePath, deny) ==
  TryCatch("Failed to read text file",
    LET r == readFileSync(f, filePath, deny)
    IN  IF r.err # "" THEN Throws(f, OsError(r.err)) ELSE ReturnsText(f, r.text))

\* writeTextFile opening the file for append instead of truncating it
writeTextFileAppending(f, filePath, content, deny) ==
  TryCatch("Failed to write text file",
    LET d == ensureDirectoryExists(f, getDirectoryName(filePath), deny)
    IN  IF d.err # NoErr THEN d
        ELSE FromFs(appendFileSync(d.fs, filePath, content, deny)))

writeTextFile(f, filePath, content, deny) ==
  TryCatch("Failed to write text file",
    LET d == ensureDirectoryExists(f, getDirectoryName(filePath), deny)
    IN  IF d.err # NoErr THEN d
        ELSE FromFs(writeFileSync(d.fs, filePath, content, deny)))

\* appendTextFile truncating the file instead of appending to it
appendTextFileTruncating(f, filePath, content, deny) ==
  TryCatch("Failed to append to text file",
    LET d == ensureDirectoryExists(f, getDirectoryName(filePath), deny)
    IN  IF d.err # NoErr THEN d
        ELSE FromFs(writeFileSync(d.fs, filePath, content, deny)))

appendTextFile(f, filePath, content, deny) ==
  TryCatch("Failed to append to text file",
    LET d == ensureDirectoryExists(f, getDirectoryName(filePath), deny)
    IN  IF d.err # NoErr THEN d
        ELSE FromFs(appendFileSync(d.fs, filePath, content, deny)))

\* writeJsonFile over a text write that appends instead of truncating
writeJsonFileAppending(f, filePath, data, deny) ==
  TryCatch("Failed to write JSON file",
    LET d == ensureDirectoryExists(f, getDirectoryName(filePath), deny)
    IN  IF d.err # NoErr THEN d
        ELSE writeTextFileAppending(d.fs, filePath, JSONStringify(data), deny))

\* writeJsonFile writing the file itself, not through writeTextFile
writeJsonFileDirect(f, filePath, data, deny) ==
  TryCatch("Failed to write JSON file",
    LET d == ensureDirectoryExists(f, getDirectoryName(filePath), deny)
    IN  IF d.err # NoErr THEN d
        ELSE FromFs(writeFileSync(d.fs, filePath, JSONStringify(data), deny)))

writeJsonFile(f, filePath, data, deny) ==
  TryCatch("Failed to write JSON file",
    LET d == ensureDirectoryExists(f, getDirectoryName(filePath), deny)
    IN  IF d.err # NoErr THEN d
        ELSE writeTextFile(d.fs, filePath, JSONStringify(data), deny))

\* no catch block: the errors of the read and of the parse pass as they are
readJsonFile(f, filePath, deny) ==
  LET json == readTextFile(f, filePath, deny)
      v == JSONParse(json.text)
  IN  IF json.err # NoErr THEN json
      ELSE IF v.ok THEN ReturnsValue(f, v.val)
      ELSE Throws(f, SyntaxError)

fileExists(f, filePath) == CatchFalse(ReturnsBool(f, existsSync(f, filePath)))

StatThen(f, p, isDir) ==
  LET st == statSync(f, p)
  IN  IF st.err # "" THEN Throws(f, OsError(st.err))
      ELSE ReturnsBool(f, IF isDir THEN st.isDirectory ELSE st.isFile)

directoryExists(f, dirPath) ==
  CatchFalse(IF existsSync(f, dirPath) THEN StatThen(f, dirPath, TRUE)
             ELSE ReturnsBool(f, FALSE))

\* isFile without its catch block
isFileNoCatch(f, filePath) == StatThen(f, filePath, FALSE)

isFile(f, filePath) == CatchFalse(StatThen(f, filePath, FALSE))

isDirectory(f, filePath) == CatchFalse(StatThen(f, filePath, TRUE))

getDirectoryContents(f, dirPath, ord) ==
  TryCatch("Failed to read directory",
    IF ~directoryExists(f, dirPath).bool THEN ReturnsList(f, <<>>)
    ELSE LET r == readdirSync(f, dirPath, ord)
         IN  IF r.err # "" THEN Throws(f, OsError(r.err)) ELSE ReturnsList(f, r.names))

\* removeFile without its existence check
removeFileNoCheck(f, filePath, deny) ==
  TryCatch("Failed to remove file", FromFs(unlinkSync(f, filePath, deny)))

removeFile(f, filePath, deny) ==
  TryCatch("Failed to remove file",
    IF fileExists(f, filePath).bool
    THEN FromFs(unlinkSync(f, filePath, deny))
    ELSE Returns(f))

\* removeDirectory testing for any entry instead of a directory
removeDirectoryAnyEntry(f, dirPath, deny) ==
  TryCatch("Failed to remove directory",
    IF fileExists(f, dirPath).bool
    THEN FromFs(rmSync(f, dirPath, deny))
    ELSE Returns(f))

removeDirectory(f, dirPath, deny) ==
  TryCatch("Failed to remove directory",
    IF directoryExists(f, dirPath).bool
    THEN FromFs(rmSync(f, dirPath, deny))
    ELSE Returns(f))

\* createDirectory without its existence check
createDirectoryNoCheck(f, dirPath, deny) ==
  TryCatch("Failed to create directory", ensureDirectoryExists(f, dirPath, deny))

createDirectory(f, dirPath, deny) ==
  TryCatch("Failed to create directory",
    IF directoryExists(f, dirPath).bool
    THEN Throws(f, NewError("Directory already exists", dirPath))
    ELSE ensureDirectoryExists(f, dirPath, deny))

RECURSIVE copyDirectory(_, _, _, _, _)
RECURSIVE copyItems(_, _, _, _, _, _, _)

\* the for loop of copyDirectory from item i on
copyItems(f, sourceDir, destDir, contents, i, ord, deny) ==
  IF i > Len(contents) THEN Returns(f)
  ELSE LET sourcePath == joinPaths(sourceDir, contents[i])
           destPath == joinPaths(destDir, contents[i])
           r == IF isDirectory(f, sourcePath).bool
                THEN copyDirectory(f, sourcePath, destPath, ord, deny)
                ELSE FromFs(copyFileSync(f, sourcePath, destPath, deny))
       IN  IF r.err # NoErr THEN r
           ELSE copyItems(r.fs, sourceDir, destDir, contents, i + 1, ord, deny)

\* copyDirectory making the destination before it looks at the source
copyDirectoryDestFirst(f, sourceDir, destDir, ord, deny) ==
  TryCatch("Failed to copy directory",
    LET d == ensureDirectoryExists(f, destDir, deny)
    IN  IF d.err # NoErr THEN d
        ELSE IF ~directoryExists(d.fs, sourceDir).bool
        THEN Throws(d.fs, NewError("Source directory does not exist", sourceDir))
        ELSE LET c == getDirectoryContents(d.fs, sourceDir, ord)
             IN  IF c.err # NoErr THEN c
                 ELSE copyItems(d.fs, sourceDir, destDir, c.list, 1, ord, deny))

copyDirectory(f, sourceDir, destDir, ord, deny) ==
  TryCatch("Failed to copy directory",
    IF ~directoryExists(f, sourceDir).bool
    THEN Throws(f, NewError("Source directory does not exist", sourceDir))
    ELSE LET d == ensureDirectoryExists(f, destDir, deny)
         IN  IF d.err # NoErr THEN d
             ELSE LET c == getDirectoryContents(d.fs, sourceDir, ord)
                  IN  IF c.err # NoErr THEN c
                      ELSE copyItems(d.fs, sourceDir, destDir, c.list, 1, ord, deny))

\* moveDirectory copying the tree and leaving the source in place
moveDirectoryByCopy(f, sourceDir, destDir, deny) ==
  TryCatch("Failed to move directory", copyDirectory(f, sourceDir, destDir, <<"a", "b">>, deny))

moveDirectory(f, sourceDir, destDir, deny) ==
  TryCatch("Failed to move directory",
    IF ~directoryExists(f, sourceDir).bool
    THEN Throws(f, NewError("Source directory does not exist", sourceDir))
    ELSE LET d == ensureDirectoryExists(f, getDirectoryName(destDir), deny)
         IN  IF d.err # NoErr THEN d
             ELSE FromFs(renameSync(d.fs, sourceDir, destDir, deny)))

\* /[<>:"/\\|?*]/
InvalidChars == {"<", ">", ":", "\"", "/", "\\", "|", "?", "*"}

\* the apostrophes and quotes of the second replace (its grave and acute
\* accents are no characters of the model)
QuoteChars2 == {"'", "\""}

\* /[.,;:!@#$%^&*()_+={}[\]|\\/]/
PunctuationChars ==
  {".", ",", ";", ":", "!", "@", "#", "$", "%", "^", "&", "*", "(", ")", "_", "+", "=",
   "{", "}", "[", "]", "|", "\\", "/"}

\* \s, as far as one-character strings of the model go
SpaceChars == {" ", "\t", "\n", "\r", "\f"}

\* .substring(0, 255)
NameMax == 255

\* replace(/[set]/g, "-")
ReplaceEach(s, set) == [i \in 1..Len(s) |-> IF s[i] \in set THEN "-" ELSE s[i]]

\* replace(/[set]/g, "")
RemoveEach(s, set) == SelectSeq(s, LAMBDA c : c \notin set)

\* replace(/[set]+/g, "-"): every run of characters of set becomes one hyphen
ReplaceRuns(s, set) ==
  SelectSeq([i \in 1..Len(s) |->
               IF s[i] \notin set THEN s[i]
               ELSE IF i > 1 /\ s[i - 1] \in set THEN "" ELSE "-"],
            LAMBDA c : c # "")

\* the first position from i on, going by step, that holds no hyphen
RECURSIVE PastHyphens(_, _, _)
PastHyphens(s, i, step) ==
  IF i \in 1..Len(s) /\ s[i] = "-" THEN PastHyphens(s, i + step, step) ELSE i

\* replace(/^-+|-+$/g, "")
TrimHyphens(s) == SubSeq(s, PastHyphens(s, 1, 1), PastHyphens(s, Len(s), 0 - 1))

\* substring(0, n)
Substring(s, n) == SubSeq(s, 1, IF Len(s) < n THEN Len(s) ELSE n)

\* the six replaces of sanitizeFilename, in their order
Replaced(filename) ==
  TrimHyphens(
    ReplaceRuns(
      ReplaceRuns(
        RemoveEach(RemoveEach(ReplaceEach(filename, InvalidChars), QuoteChars2),
                   PunctuationChars),
        SpaceChars),
      {"-"}))

\* sanitizeFilename without its length limit
sanitizeFilenameNoLimit(filename) == Replaced(filename)

sanitizeFilename(filename) == Substring(Replaced(filename), NameMax)

\* copyFile leaving the directory of destPath as it finds it
copyFileNoEnsure(f, sourcePath, destPath, deny) ==
  TryCatch("Failed to copy file", FromFs(copyFileSync(f, sourcePath, destPath, deny)))

copyFile(f, sourcePath, destPath, deny) ==
  TryCatch("Failed to copy file",
    LET d == ensureDirectoryExists(f, getDirectoryName(destPath), deny)
    IN  IF d.err # NoErr THEN d
        ELSE FromFs(copyFileSync(d.fs, sourcePath, destPath, deny)))

renameFile(f, oldPath, newPath, deny) ==
  TryCatch("Failed to rename file", FromFs(renameSync(f, oldPath, newPath, deny)))

\* moveFile that renames without looking after the directory of destPath
moveFileNoEnsure(f, sourcePath, destPath, deny) ==
  TryCatch("Failed to move file", renameFile(f, sourcePath, destPath, deny))

moveFile(f, sourcePath, destPath, deny) ==
  TryCatch("Failed to move file",
    LET d == ensureDirectoryExists(f, getDirectoryName(destPath), deny)
    IN  IF d.err # NoErr THEN d
        ELSE renameFile(d.fs, sourcePath, destPath, deny))

\* the entry name ".write-test" is the name "a" of the model
WriteTest == "a"

\* the content "test" of the probe file
TestText == <<"t", "e", "s", "t">>

\* isWritable without the catch block
isWritableThrowing(f, dirPath, deny, denyUnlink) ==
  LET testFile == joinPaths(dirPath, WriteTest)
      w == writeFileSync(f, testFile, TestText, deny)
      u == unlinkSync(w.fs, testFile, denyUnlink)
  IN  IF w.err # "" THEN FromFs(w)
      ELSE IF u.err # "" THEN FromFs(u)
      ELSE ReturnsBool(u.fs, TRUE)

\* deny is what the write is refused, denyUnlink what the unlink is refused
isWritable(f, dirPath, deny, denyUnlink) ==
  CatchFalse(
    LET testFile == joinPaths(dirPath, WriteTest)
        w == writeFileSync(f, testFile, TestText, deny)
        u == unlinkSync(w.fs, testFile, denyUnlink)
    IN  IF w.err # "" THEN FromFs(w)
        ELSE IF u.err # "" THEN FromFs(u)
        ELSE ReturnsBool(u.fs, TRUE))

\* The paths of node:path (POSIX) as texts: "/" separates segments

\* the segments of a path text, empty ones included
RECURSIVE Split(_)
Split(s) ==
  IF \A i \in 1..Len(s) : s[i] # "/" THEN <<s>>
  ELSE LET k == CHOOSE i \in 1..Len(s) : s[i] = "/" /\ \A j \in 1..(i - 1) : s[j] # "/"
       IN  <<SubSeq(s, 1, k - 1)>> \o Split(SubSeq(s, k + 1, Len(s)))

\* normalizeString: "" and "." are dropped, ".." takes back the segment before it
RECURSIVE NormalizeSegments(_, _, _, _)
NormalizeSegments(segs, i, res, allowAboveRoot) ==
  IF i > Len(segs) THEN res
  ELSE LET seg == segs[i]
           up == <<".", ".">>
       IN  NormalizeSegments(segs, i + 1,
             IF seg = <<>> \/ seg = <<".">> THEN res
             ELSE IF seg # up THEN Append(res, seg)
             ELSE IF res # <<>> /\ res[Len(res)] # up THEN SubSeq(res, 1, Len(res) - 1)
             ELSE IF allowAboveRoot THEN Append(res, up)
             ELSE res,
             allowAboveRoot)

RECURSIVE JoinSegments(_)
JoinSegments(segs) ==
  IF segs = <<>> THEN <<>>
  ELSE IF Len(segs) = 1 THEN segs[1]
  ELSE segs[1] \o <<"/">> \o JoinSegments(Tail(segs))

\* path.normalize
normalize(path) ==
  IF path = <<>> THEN <<".">>
  ELSE LET isAbsolute == path[1] = "/"
           trailingSeparator == path[Len(path)] = "/"
           body == JoinSegments(NormalizeSegments(Split(path), 1, <<>>, ~isAbsolute))
       IN  IF body = <<>>
           THEN (IF isAbsolute THEN <<"/">> ELSE IF trailingSeparator THEN <<".", "/">> ELSE <<".">>)
           ELSE (IF isAbsolute THEN <<"/">> ELSE <<>>) \o body
                \o (IF trailingSeparator THEN <<"/">> ELSE <<>>)

\* path.join of two texts
pathJoin(a, b) ==
  LET joined == IF a = <<>> THEN b ELSE IF b = <<>> THEN a ELSE a \o <<"/">> \o b
  IN  IF joined = <<>> THEN <<".">> ELSE normalize(joined)

\* path.parse: positions are those of the text, from 1; 0 stands for none
pathParse(path) ==
  LET isAbsolute == path # <<>> /\ path[1] = "/"
      first == IF isAbsolute THEN 2 ELSE 1
      Last(S) == IF S = {} THEN 0 ELSE CHOOSE i \in S : \A j \in S : j <= i
      end == Last({i \in first..Len(path) : path[i] # "/"})
      startPart == Last({i \in first..end : path[i] = "/"})
      start == IF startPart = 0 THEN first ELSE startPart + 1
      startDot == Last({i \in start..end : path[i] = "."})
      preDotState == IF startDot = 0 \/ startDot = start THEN 0
                     ELSE IF path[start] = "." THEN 1 ELSE 0 - 1
      noExt == \/ startDot = 0
               \/ preDotState = 0
               \/ preDotState = 1 /\ startDot = end /\ startDot = startPart + 2
  IN  [dir |-> IF startPart > 0 THEN SubSeq(path, 1, startPart - 1)
               ELSE IF isAbsolute THEN <<"/">> ELSE <<>>,
       base |-> IF end = 0 THEN <<>> ELSE SubSeq(path, start, end),
       name |-> IF end = 0 THEN <<>>
                ELSE IF noExt THEN SubSeq(path, start, end)
                ELSE SubSeq(path, start, startDot - 1),
       ext |-> IF end = 0 \/ noExt THEN <<>> ELSE SubSeq(path, startDot, end)]

\* changeFileExtension putting a dot before every extension
changeFileExtensionDotAlways(filePath, newExtension) ==
  LET parsedPath == pathParse(filePath)
  IN  pathJoin(parsedPath.dir, parsedPath.name \o <<".">> \o newExtension)

changeFileExtension(filePath, newExtension) ==
  LET parsedPath == pathParse(filePath)
      ext == IF newExtension # <<>> /\ newExtension[1] = "." THEN newExtension
             ELSE <<".">> \o newExtension
  IN  pathJoin(parsedPath.dir, parsedPath.name \o ext)

\* the characters of an entry name
NameText(item) == <<item>>

\* String.prototype.includes
Includes(s, t) == \E i \in 1..(Len(s) + 1) : i + Len(t) - 1 <= Len(s) /\ SubSeq(s, i, i + Len(t) - 1) = t

\* the optional pattern argument: not given, or a string
NoPattern == [given |-> FALSE, text |-> <<>>]
Pattern(t) == [given |-> TRUE, text |-> t]

\* !pattern || item.includes(pattern): undefined and "" are falsy
Matches(pattern, item) ==
  ~pattern.given \/ pattern.text = <<>> \/ Includes(NameText(item), pattern.text)

RECURSIVE findFilesPruning(_, _, _, _, _)
RECURSIVE findFilesPruningItems(_, _, _, _, _, _, _, _)

findFilesPruningItems(f, dirPath, pattern, contents, i, files, ord, deny) ==
  IF i > Len(contents) THEN ReturnsList(f, files)
  ELSE LET item == contents[i]
           itemPath == joinPaths(dirPath, item)
           stats == statSync(f, itemPath)
           sub == findFilesPruning(f, itemPath, pattern, ord, deny)
       IN  IF stats.err # "" THEN Throws(f, OsError(stats.err))
           ELSE IF stats.isFile
                THEN findFilesPruningItems(f, dirPath, pattern, contents, i + 1,
                       files \o (IF Matches(pattern, item) THEN <<itemPath>> ELSE <<>>), ord, deny)
           ELSE IF stats.isDirectory /\ Matches(pattern, item)
                THEN IF sub.err # NoErr THEN sub
                     ELSE findFilesPruningItems(f, dirPath, pattern, contents, i + 1,
                            files \o sub.list, ord, deny)
           ELSE findFilesPruningItems(f, dirPath, pattern, contents, i + 1, files, ord, deny)

\* findFiles descending only into the directories whose name matches the pattern
findFilesPruning(f, dirPath, pattern, ord, deny) ==
  TryCatch("Failed to find files",
    LET c == readdirSyncAs(f, dirPath, ord, deny)
    IN  IF c.err # "" THEN Throws(f, OsError(c.err))
        ELSE findFilesPruningItems(f, dirPath, pattern, c.names, 1, <<>>, ord, deny))

RECURSIVE findFiles(_, _, _, _, _)
RECURSIVE findFilesItems(_, _, _, _, _, _, _, _)

\* the for loop of findFiles from item i on, with the files found so far
findFilesItems(f, dirPath, pattern, contents, i, files, ord, deny) ==
  IF i > Len(contents) THEN ReturnsList(f, files)
  ELSE LET item == contents[i]
           itemPath == joinPaths(dirPath, item)
           stats == statSync(f, itemPath)
           sub == findFiles(f, itemPath, pattern, ord, deny)
       IN  IF stats.err # "" THEN Throws(f, OsError(stats.err))
           ELSE IF stats.isFile
                THEN findFilesItems(f, dirPath, pattern, contents, i + 1,
                       files \o (IF Matches(pattern, item) THEN <<itemPath>> ELSE <<>>), ord, deny)
           ELSE IF stats.isDirectory
                THEN IF sub.err # NoErr THEN sub
                     ELSE findFilesItems(f, dirPath, pattern, contents, i + 1,
                            files \o sub.list, ord, deny)
           ELSE findFilesItems(f, dirPath, pattern, contents, i + 1, files, ord, deny)

findFiles(f, dirPath, pattern, ord, deny) ==
  TryCatch("Failed to find files",
    LET c == readdirSyncAs(f, dirPath, ord, deny)
    IN  IF c.err # "" THEN Throws(f, OsError(c.err))
        ELSE findFilesItems(f, dirPath, pattern, c.names, 1, <<>>, ord, deny))

RECURSIVE findDirectoriesPostOrder(_, _, _, _, _)
RECURSIVE findDirectoriesPostOrderItems(_, _, _, _, _, _, _, _)

findDirectoriesPostOrderItems(f, dirPath, pattern, contents, i, directories, ord, deny) ==
  IF i > Len(contents) THEN ReturnsList(f, directories)
  ELSE LET item == contents[i]
           itemPath == joinPaths(dirPath, item)
           stats == statSync(f, itemPath)
           sub == findDirectoriesPostOrder(f, itemPath, pattern, ord, deny)
       IN  IF stats.err # "" THEN Throws(f, OsError(stats.err))
           ELSE IF stats.isDirectory
                THEN IF sub.err # NoErr THEN sub
                     ELSE findDirectoriesPostOrderItems(f, dirPath, pattern, contents, i + 1,
                            directories \o sub.list
                              \o (IF Matches(pattern, item) THEN <<itemPath>> ELSE <<>>),
                            ord, deny)
           ELSE findDirectoriesPostOrderItems(f, dirPath, pattern, contents, i + 1,
                  directories, ord, deny)

\* findDirectories pushing a directory after the directories below it
findDirectoriesPostOrder(f, dirPath, pattern, ord, deny) ==
  TryCatch("Failed to find directories",
    LET c == readdirSyncAs(f, dirPath, ord, deny)
    IN  IF c.err # "" THEN Throws(f, OsError(c.err))
        ELSE findDirectoriesPostOrderItems(f, dirPath, pattern, c.names, 1, <<>>, ord, deny))

RECURSIVE findDirectories(_, _, _, _, _)
RECURSIVE findDirectoriesItems(_, _, _, _, _, _, _, _)

\* the for loop of findDirectories from item i on
findDirectoriesItems(f, dirPath, pattern, contents, i, directories, ord, deny) ==
  IF i > Len(contents) THEN ReturnsList(f, directories)
  ELSE LET item == contents[i]
           itemPath == joinPaths(dirPath, item)
           stats == statSync(f, itemPath)
           sub == findDirectories(f, itemPath, pattern, ord, deny)
       IN  IF stats.err # "" THEN Throws(f, OsError(stats.err))
           ELSE IF stats.isDirectory
                THEN IF sub.err # NoErr THEN sub
                     ELSE findDirectoriesItems(f, dirPath, pattern, contents, i + 1,
                            directories
                              \o (IF Matches(pattern, item) THEN <<itemPath>> ELSE <<>>)
                              \o sub.list,
                            ord, deny)
           ELSE findDirectoriesItems(f, dirPath, pattern, contents, i + 1, directories, ord, deny)

findDirectories(f, dirPath, pattern, ord, deny) ==
  TryCatch("Failed to find directories",
    LET c == readdirSyncAs(f, dirPath, ord, deny)
    IN  IF c.err # "" THEN Throws(f, OsError(c.err))
        ELSE findDirectoriesItems(f, dirPath, pattern, c.names, 1, <<>>, ord, deny))

\* isEmptyDirectory answering for a missing directory instead of throwing
isEmptyDirectoryNoCheck(f, dirPath, ord) ==
  TryCatch("Failed to check if directory is empty",
    LET c == getDirectoryContents(f, dirPath, ord)
    IN  IF c.err # NoErr THEN c ELSE ReturnsBool(f, Len(c.list) = 0))

isEmptyDirectory(f, dirPath, ord) ==
  TryCatch("Failed to check if directory is empty",
    IF ~directoryExists(f, dirPath).bool
    THEN Throws(f, NewError("Directory does not exist", dirPath))
    ELSE LET c == getDirectoryContents(f, dirPath, ord)
         IN  IF c.err # NoErr THEN c ELSE ReturnsBool(f, Len(c.list) = 0))

-----------------------------------------------------------------------------
(* The calls a program makes.  The library keeps nothing between calls:  *)
(* `last` and `pre` are what an observer notes of one call, the call, its  *)
(* outcome and the filesystem before it.  The observer notes one call at   *)
(* a time and forgets it before the next one.                              *)

NoCall == [op |-> "none", p |-> Root, q |-> Root, s |-> <<>>, t |-> <<>>, data |-> JNull,
           pattern |-> NoPattern, deny |-> {}, denyUnlink |-> {}, ok |-> TRUE,
           err |-> NoErr, bool |-> FALSE, text |-> <<>>, list |-> <<>>, value |-> JNull]

\* two callers may be in a call at a time
Callers == {1, 2}

\* a caller in no call.  In a call, pc is the statement the caller is at,
\* found what its existence check returned, frames its stack of
\* copyDirectory activations and err the error it has raised
NoRun == [op |-> "none", p |-> Root, q |-> Root, pc |-> "idle", found |-> FALSE,
          frames |-> <<>>, err |-> NoErr]

Idle == [c \in Callers |-> NoRun]

Init ==
  /\ fs = EmptyTree
  /\ pre = EmptyTree
  /\ last = NoCall
  /\ run = Idle

\* what the observer notes of the call op(p, q, s, data, pattern) with outcome r
Noted(op, p, q, s, data, pattern, r) ==
  [op |-> op, p |-> p, q |-> q, s |-> s, t |-> <<>>, data |-> data, pattern |-> pattern,
   deny |-> {}, denyUnlink |-> {}, ok |-> r.err = NoErr, err |-> r.err, bool |-> r.bool, text |-> r.text, list |-> r.list,
   value |-> r.value]

\* the call op(p, q, s, data) with outcome r
CallWith(op, p, q, s, data, r) ==
  /\ last = NoCall
  /\ fs' = r.fs
  /\ pre' = fs
  /\ last' = Noted(op, p, q, s, data, NoPattern, r)
  /\ run' = run

\* the call op(p, pattern) with outcome r
CallFind(op, p, pattern, r) ==
  /\ last = NoCall
  /\ fs' = r.fs
  /\ pre' = fs
  /\ last' = Noted(op, p, p, <<>>, JNull, pattern, r)
  /\ run' = run

Call(op, p, q, s, r) == CallWith(op, p, q, s, JNull, r)

Forget ==
  /\ last # NoCall
  /\ fs' = fs
  /\ pre' = fs
  /\ last' = NoCall
  /\ run' = run

\* what the process may be refused while it works on p: nothing, or one place on the way to p
DenyTo(p) == {{}} \cup {{x} : x \in {y \in Paths : y # Root /\ IsPrefix(y, p)}}

\* nothing, or one place at or below p
DenyBelow(p) == {{}} \cup {{x} : x \in {y \in Paths : y # Root /\ IsPrefix(p, y)}}

CallFileExists(p) == Call("fileExists", p, p, <<>>, fileExists(fs, p))
CallDirectoryExists(p) == Call("directoryExists", p, p, <<>>, directoryExists(fs, p))
CallIsFile(p) == Call("isFile", p, p, <<>>, isFile(fs, p))
CallIsDirectory(p) == Call("isDirectory", p, p, <<>>, isDirectory(fs, p))

CallEnsureDirectoryExists(p) ==
  \E deny \in DenyTo(p) :
    Call("ensureDirectoryExists", p, p, <<>>, ensureDirectoryExists(fs, p, deny))

CallCreateDirectory(p) ==
  \E deny \in DenyTo(p) :
    Call("createDirectory", p, p, <<>>, createDirectory(fs, p, deny))

CallWriteTextFile(p, s) ==
  \E deny \in DenyTo(p) :
    Call("writeTextFile", p, p, s, writeTextFile(fs, p, s, deny))

\* appends are made while the file stays within FileMax
CallAppendTextFile(p, s) ==
  /\ Len(At(fs, p).data) + Len(utf8Encode(s)) <= FileMax
  /\ \E deny \in DenyTo(p) :
    Call("appendTextFile", p, p, s, appendTextFile(fs, p, s, deny))

CallReadTextFile(p) ==
  \E deny \in {{}, {p}} :
    Call("readTextFile", p, p, <<>>, readTextFile(fs, p, deny))

CallRemoveFile(p) ==
  \E deny \in {{}, {p}} :
    Call("removeFile", p, p, <<>>, removeFile(fs, p, deny))

CallRemoveDirectory(p) ==
  \E deny \in {{}, {p}} :
    Call("removeDirectory", p, p, <<>>, removeDirectory(fs, p, deny))

CallWriteJsonFile(p, data) ==
  \E deny \in DenyTo(p) :
    CallWith("writeJsonFile", p, p, <<>>, data, writeJsonFile(fs, p, data, deny))

CallReadJsonFile(p) ==
  \E deny \in {{}, {p}} :
    Call("readJsonFile", p, p, <<>>, readJsonFile(fs, p, deny))

\* the directories a search of p may be refused: none, or one at or below p
DenyRead(p) ==
  {{}} \cup {{x} : x \in {y \in Paths : IsPrefix(p, y) /\ fs[y].kind = "dir"}}

CallFindFiles(p, pattern) ==
  \E ord \in Orders, deny \in DenyRead(p) :
    CallFind("findFiles", p, pattern, findFiles(fs, p, pattern, ord, deny))

CallFindDirectories(p, pattern) ==
  \E ord \in Orders, deny \in DenyRead(p) :
    CallFind("findDirectories", p, pattern, findDirectories(fs, p, pattern, ord, deny))

CallIsEmptyDirectory(p) ==
  \E ord \in Orders :
    Call("isEmptyDirectory", p, p, <<>>, isEmptyDirectory(fs, p, ord))

CallRenameFile(p, q) ==
  \E deny \in {{}, {p}, {q}} :
    Call("renameFile", p, q, <<>>, renameFile(fs, p, q, deny))

CallCopyFile(p, q) ==
  \E deny \in DenyTo(q) \cup {{p}} :
    Call("copyFile", p, q, <<>>, copyFile(fs, p, q, deny))

CallMoveFile(p, q) ==
  \E deny \in DenyTo(q) \cup {{p}} :
    Call("moveFile", p, q, <<>>, moveFile(fs, p, q, deny))

\* the probe file may be refused to the write, to the unlink, or to both
CallIsWritable(p) ==
  \E deny \in {{}, {joinPaths(p, WriteTest)}}, denyUnlink \in {{}, {joinPaths(p, WriteTest)}} :
    /\ last = NoCall
    /\ fs' = isWritable(fs, p, deny, denyUnlink).fs
    /\ pre' = fs
    /\ last' = [Noted("isWritable", p, p, <<>>, JNull, NoPattern,
                       isWritable(fs, p, deny, denyUnlink))
                  EXCEPT !.deny = deny, !.denyUnlink = denyUnlink]
    /\ run' = run

\* a call on two texts
CallChangeFileExtension(filePath, newExtension) ==
  /\ last = NoCall
  /\ fs' = fs
  /\ pre' = fs
  /\ last' = [Noted("changeFileExtension", Root, Root, filePath, JNull, NoPattern,
                     ReturnsText(fs, changeFileExtension(filePath, newExtension)))
                EXCEPT !.t = newExtension]
  /\ run' = run

CallSanitizeFilename(filename) ==
  Call("sanitizeFilename", Root, Root, filename, ReturnsText(fs, sanitizeFilename(filename)))

\* the listing order and the refusals matter only to a call that gets past its first check
CallCopyDirectory(p, q) ==
  \E ord \in IF directoryExists(fs, p).bool THEN Orders ELSE {<<"a", "b">>},
     deny \in IF directoryExists(fs, p).bool THEN DenyBelow(q) ELSE {{}} :
    Call("copyDirectory", p, q, <<>>, copyDirectory(fs, p, q, ord, deny))

CallMoveDirectory(p, q) ==
  \E deny \in IF directoryExists(fs, p).bool THEN DenyTo(q) ELSE {{}} :
    Call("moveDirectory", p, q, <<>>, moveDirectory(fs, p, q, deny))

\* copyDirectory step by step.  Caller 1 holds a stack of activations, the
\* innermost last: the directories of the activation, the contents it has
\* read (i = 0 before it has read them) and the item i the loop is at.
\* Nothing is refused to this caller: its steps fail for what is in the way
\* in the tree (ENOTDIR, EISDIR) and at the limits (ENAMETOOLONG, ENOSPC).

Activation(sourceDir, destDir) ==
  [sourceDir |-> sourceDir, destDir |-> destDir, contents |-> <<>>, i |-> 0]

\* the call copyDirectory(p, q) begins
StartCopyDirectory(p, q) ==
  /\ fs' = fs
  /\ pre' = fs
  /\ last' = last
  /\ run' = [run EXCEPT ![1] = [NoRun EXCEPT !.op = "copyDirectory", !.p = p, !.q = q,
                                             !.pc = "copy",
                                             !.frames = <<Activation(p, q)>>]]

\* the call ends with outcome r
CopyEnds(r) ==
  /\ fs' = r.fs
  /\ pre' = pre
  /\ last' = Noted("copyDirectory", run[1].p, run[1].q, <<>>, JNull, NoPattern, r)
  /\ run' = Idle

\* a throw that puts the tree back as it was when the call began
CopyThrowsRollingBack(f, e) ==
  CopyEnds(Throws(pre, [e EXCEPT !.wraps = [k \in 1..Len(run[1].frames) |->
                                              "Failed to copy directory"] \o @]))

\* an error thrown in the innermost activation passes the catch block of
\* every activation on the stack
CopyThrows(f, e) ==
  CopyEnds(Throws(f, [e EXCEPT !.wraps = [k \in 1..Len(run[1].frames) |->
                                            "Failed to copy directory"] \o @]))

\* the innermost activation is now act
CopyGoesOn(f, act) ==
  /\ fs' = f
  /\ pre' = pre
  /\ last' = last
  /\ run' = [run EXCEPT ![1].frames = SubSeq(@, 1, Len(@) - 1) \o act]

\* from the source check to the reading of the contents
CopyEnter ==
  LET top == run[1].frames[Len(run[1].frames)]
  IN  /\ run[1].pc = "copy"
      /\ top.i = 0
      /\ IF ~directoryExists(fs, top.sourceDir).bool
         THEN CopyThrows(fs, NewError("Source directory does not exist", top.sourceDir))
         ELSE LET d == ensureDirectoryExists(fs, top.destDir, {})
              IN  IF d.err # NoErr THEN CopyThrows(d.fs, d.err)
                  ELSE \E ord \in Orders :
                         LET c == getDirectoryContents(d.fs, top.sourceDir, ord)
                         IN  IF c.err # NoErr THEN CopyThrows(c.fs, c.err)
                             ELSE CopyGoesOn(c.fs, <<[top EXCEPT !.contents = c.list,
                                                                 !.i = 1]>>)

\* a loop that passes over the directories the copy has made itself
CopyItemKnowingItsOwn ==
  LET top == run[1].frames[Len(run[1].frames)]
      sourcePath == joinPaths(top.sourceDir, top.contents[top.i])
      destPath == joinPaths(top.destDir, top.contents[top.i])
  IN  /\ run[1].pc = "copy"
      /\ top.i >= 1
      /\ top.i <= Len(top.contents)
      /\ IF At(pre, sourcePath).kind = "none"
         THEN CopyGoesOn(fs, <<[top EXCEPT !.i = @ + 1]>>)
         ELSE IF isDirectory(fs, sourcePath).bool
         THEN CopyGoesOn(fs, <<top, Activation(sourcePath, destPath)>>)
         ELSE LET c == copyFileSync(fs, sourcePath, destPath, {})
              IN  IF c.err # "" THEN CopyThrows(c.fs, OsError(c.err))
                  ELSE CopyGoesOn(c.fs, <<[top EXCEPT !.i = @ + 1]>>)

\* one turn of the loop: a subdirectory is entered, a file is copied
CopyItem ==
  LET top == run[1].frames[Len(run[1].frames)]
      sourcePath == joinPaths(top.sourceDir, top.contents[top.i])
      destPath == joinPaths(top.destDir, top.contents[top.i])
  IN  /\ run[1].pc = "copy"
      /\ top.i >= 1
      /\ top.i <= Len(top.contents)
      /\ IF isDirectory(fs, sourcePath).bool
         THEN CopyGoesOn(fs, <<top, Activation(sourcePath, destPath)>>)
         ELSE LET c == copyFileSync(fs, sourcePath, destPath, {})
              IN  IF c.err # "" THEN CopyThrows(c.fs, OsError(c.err))
                  ELSE CopyGoesOn(c.fs, <<[top EXCEPT !.i = @ + 1]>>)

\* the loop is over: the activation returns to the loop that called it, or
\* the call returns
CopyReturn ==
  LET n == Len(run[1].frames)
      top == run[1].frames[n]
  IN  /\ run[1].pc = "copy"
      /\ top.i > Len(top.contents)
      /\ IF n = 1 THEN CopyEnds(Returns(fs))
         ELSE /\ fs' = fs
              /\ pre' = pre
              /\ last' = last
              /\ run' = [run EXCEPT ![1].frames =
                           SubSeq(@, 1, n - 2) \o <<[@[n - 1] EXCEPT !.i = @ + 1]>>]

\* one call of the library, on any arguments
SomeCall ==
  \/ \E p \in Paths : CallFileExists(p)
  \/ \E p \in Paths : CallDirectoryExists(p)
  \/ \E p \in Paths : CallIsFile(p)
  \/ \E p \in Paths : CallIsDirectory(p)
  \/ \E p \in Paths : CallEnsureDirectoryExists(p)
  \/ \E p \in Paths : CallCreateDirectory(p)
  \/ \E p \in Paths, s \in PlainTexts : CallWriteTextFile(p, s)
  \/ \E p \in Paths : CallReadTextFile(p)
  \/ \E p \in Paths : CallRemoveFile(p)
  \/ \E p \in Paths : CallRemoveDirectory(p)
  \/ \E p \in Paths, q \in Paths : CallCopyDirectory(p, q)
  \/ \E p \in Paths, q \in Paths : CallMoveDirectory(p, q)

Next ==
  \/ last = NoCall /\ SomeCall
  \/ Forget

Spec == Init /\ [][Next]_vars

\* every present entry other than the base directory lies in a directory
WellFormedTree(f) ==
  /\ f[Root] = Dir
  /\ \A p \in Paths : p # Root /\ f[p].kind # "none" => f[getDirectoryName(p)].kind = "dir"
  /\ \A p \in Paths : f[p].kind # "file" => f[p].data = <<>>

TypeOK ==
  /\ WellFormedTree(fs)
  /\ WellFormedTree(pre)
  /\ Count(fs) <= MaxEntries

-----------------------------------------------------------------------------
(* Text files: the same calls on one file path, with every text of at most *)
(* MaxLen code units                                                       *)

TextPaths == {<<"b", "a">>}

TextCall ==
  \/ \E p \in TextPaths, s \in Texts : CallWriteTextFile(p, s)
  \/ \E p \in TextPaths, s \in Texts : CallAppendTextFile(p, s)
  \/ \E p \in TextPaths : CallReadTextFile(p)
  \/ \E p \in TextPaths : CallRemoveFile(p)
  \/ \E p \in TextPaths : CallRemoveDirectory(getDirectoryName(p))

NextText ==
  \/ last = NoCall /\ TextCall
  \/ Forget

SpecText == Init /\ [][NextText]_vars

-----------------------------------------------------------------------------
(* JSON files: values written to one file path and read back; a text write *)
(* puts there what is no JSON document                                     *)

JsonCall ==
  \/ \E p \in TextPaths, data \in JsonValues : CallWriteJsonFile(p, data)
  \/ \E p \in TextPaths : CallReadJsonFile(p)
  \/ \E p \in TextPaths, s \in PlainTexts : CallWriteTextFile(p, s)
  \/ \E p \in TextPaths : CallRemoveDirectory(getDirectoryName(p))

NextJson ==
  \/ last = NoCall /\ JsonCall
  \/ Forget

SpecJson == Init /\ [][NextJson]_vars

-----------------------------------------------------------------------------
(* Searches: trees of directories and empty files are built, then searched *)
(* from any directory with any pattern                                      *)

Patterns == {NoPattern} \cup {Pattern(t) : t \in {<<>>, <<"a">>, <<"b">>, <<"a", "b">>}}

FindCall ==
  \/ \E p \in Paths : CallEnsureDirectoryExists(p)
  \/ \E p \in Paths : CallWriteTextFile(p, <<>>)
  \/ \E p \in Paths : CallRemoveFile(p)
  \/ \E p \in Paths, pattern \in Patterns : CallFindFiles(p, pattern)
  \/ \E p \in Paths, pattern \in Patterns : CallFindDirectories(p, pattern)
  \/ \E p \in Paths : CallIsEmptyDirectory(p)

NextFind ==
  \/ last = NoCall /\ FindCall
  \/ Forget

SpecFind == Init /\ [][NextFind]_vars

-----------------------------------------------------------------------------
(* File names: short texts around a run of letters whose length is near    *)
(* the limit of sanitizeFilename                                           *)

FilenameChars == {"x", "-", " ", "/", "'", "."}

FilenameStarts == UNION {[1..n -> FilenameChars] : n \in 0..MaxLen}

FilenameEnds ==
  {<<>>, <<"x">>, <<"-">>, <<" ">>, <<"-", "x">>, <<" ", "x">>, <<"/", "/">>, <<".", "-">>,
   <<"x", " ">>, <<"'", "/">>}

RunLengths == {0, NameMax - 2, NameMax - 1, NameMax, NameMax + 1}

Filenames ==
  {a \o [i \in 1..k |-> "x"] \o b :
     a \in FilenameStarts, b \in FilenameEnds, k \in RunLengths}

NextName ==
  \/ last = NoCall /\ \E filename \in Filenames : CallSanitizeFilename(filename)
  \/ Forget

SpecName == Init /\ [][NextName]_vars

-----------------------------------------------------------------------------
(* Path texts: every short text of separators, dots and letters as a path, *)
(* and as an extension                                                     *)

PathChars == {"/", ".", "x"}

PathTexts == UNION {[1..n -> PathChars] : n \in 0..(MaxLen + 2)}

Extensions == UNION {[1..n -> PathChars] : n \in 0..MaxLen}

NextPath ==
  \/ last = NoCall /\ \E filePath \in PathTexts, newExtension \in Extensions :
                         CallChangeFileExtension(filePath, newExtension)
  \/ Forget

SpecPath == Init /\ [][NextPath]_vars

-----------------------------------------------------------------------------
(* Files: directories and files are made anywhere in the tree, then moved  *)
(* and renamed                                                             *)

FileCall ==
  \/ \E p \in Paths : CallCreateDirectory(p)
  \/ \E p \in Paths, s \in PlainTexts : CallWriteTextFile(p, s)
  \/ \E p \in Paths, q \in Paths : CallRenameFile(p, q)
  \/ \E p \in Paths, q \in Paths : CallMoveFile(p, q)

NextFile ==
  \/ last = NoCall /\ FileCall
  \/ Forget

SpecFile == Init /\ [][NextFile]_vars

-----------------------------------------------------------------------------
(* Writes: directories and files are made anywhere in the tree, as text or *)
(* as JSON, and directories are probed for writing                         *)

WriteCall ==
  \/ \E p \in Paths : CallCreateDirectory(p)
  \/ \E p \in Paths, s \in PlainTexts : CallWriteTextFile(p, s)
  \/ \E p \in Paths : CallWriteJsonFile(p, JNull)
  \/ \E p \in Paths : CallIsWritable(p)

NextWrite ==
  \/ last = NoCall /\ WriteCall
  \/ Forget

SpecWrite == Init /\ [][NextWrite]_vars

-----------------------------------------------------------------------------
(* Errors: every operation that wraps the errors of its steps, called on   *)
(* the paths of at most two segments                                       *)

ErrPaths == {p \in Paths : Len(p) <= 2}

ErrCall ==
  \/ \E p \in ErrPaths : CallEnsureDirectoryExists(p)
  \/ \E p \in ErrPaths : CallCreateDirectory(p)
  \/ \E p \in ErrPaths : CallWriteTextFile(p, <<>>)
  \/ \E p \in ErrPaths : CallAppendTextFile(p, <<>>)
  \/ \E p \in ErrPaths, q \in ErrPaths : CallCopyFile(p, q)
  \/ \E p \in ErrPaths, q \in ErrPaths : CallMoveFile(p, q)
  \/ \E p \in ErrPaths, q \in ErrPaths : CallCopyDirectory(p, q)
  \/ \E p \in ErrPaths, q \in ErrPaths : CallMoveDirectory(p, q)
  \/ \E p \in ErrPaths : CallFindFiles(p, NoPattern)
  \/ \E p \in ErrPaths : CallFindDirectories(p, NoPattern)
  \/ \E p \in ErrPaths : CallIsEmptyDirectory(p)

NextErr ==
  \/ last = NoCall /\ ErrCall
  \/ Forget

SpecErr == Init /\ [][NextErr]_vars

-----------------------------------------------------------------------------
(* Two callers: removeFile and ensureDirectoryExists step by step.  A call *)
(* is two steps, its existence check and then its delete or create, and     *)
(* the steps of the two callers interleave; each fs call is atomic.         *)

\* both callers begin op(p); which of them acts first is open
Begin(op, p) ==
  /\ run = Idle
  /\ fs' = fs
  /\ pre' = fs
  /\ last' = last
  /\ run' = [c \in Callers |-> [NoRun EXCEPT !.op = op, !.p = p, !.q = p, !.pc = "check"]]

\* Filets.fileExists(filePath) of removeFile, fs.existsSync(dirPath) of
\* ensureDirectoryExists
ExistenceCheck(c) ==
  /\ run[c].pc = "check"
  /\ fs' = fs
  /\ pre' = pre
  /\ last' = last
  /\ run' = [run EXCEPT ![c].found = IF run[c].op = "removeFile"
                                     THEN fileExists(fs, run[c].p).bool
                                     ELSE existsSync(fs, run[c].p),
                        ![c].pc = "act"]

\* fs.unlinkSync(filePath) when the check found the file, fs.mkdirSync(dirPath,
\* { recursive: true }) when it found nothing; the catch block; the return
DeleteOrCreate(c) ==
  LET r == IF run[c].op = "removeFile"
           THEN TryCatch("Failed to remove file",
                  IF run[c].found THEN FromFs(unlinkSync(fs, run[c].p, {})) ELSE Returns(fs))
           ELSE TryCatch("Failed to create directory",
                  IF ~run[c].found THEN FromFs(mkdirSync(fs, run[c].p, {})) ELSE Returns(fs))
  IN  /\ run[c].pc = "act"
      /\ fs' = r.fs
      /\ pre' = pre
      /\ last' = last
      /\ run' = [run EXCEPT ![c].err = r.err, ![c].pc = "done"]

\* the calls are over and their outcomes forgotten
BothReturn ==
  /\ \A c \in Callers : run[c].pc = "done"
  /\ fs' = fs
  /\ pre' = fs
  /\ last' = last
  /\ run' = Idle

NextRace ==
  \/ last = NoCall /\ run = Idle /\ \E p \in Paths : CallEnsureDirectoryExists(p)
  \/ last = NoCall /\ run = Idle /\ \E p \in Paths : CallWriteTextFile(p, <<>>)
  \/ last = NoCall /\ \E p \in Paths : Begin("removeFile", p)
  \/ last = NoCall /\ \E p \in Paths : Begin("ensureDirectoryExists", p)
  \/ \E c \in Callers : ExistenceCheck(c)
  \/ \E c \in Callers : DeleteOrCreate(c)
  \/ BothReturn
  \/ Forget

SpecRace == Init /\ [][NextRace]_vars

-----------------------------------------------------------------------------
(* Copies step by step: a tree of directories and files is built, then     *)
(* copied                                                                  *)

NextCopy ==
  \/ last = NoCall /\ run = Idle /\ \E p \in Paths : CallEnsureDirectoryExists(p)
  \/ last = NoCall /\ run = Idle /\ \E p \in Paths : CallWriteTextFile(p, <<"x">>)
  \/ last = NoCall /\ run = Idle /\ \E p \in Paths, q \in Paths : StartCopyDirectory(p, q)
  \/ CopyEnter
  \/ CopyItem
  \/ CopyReturn
  \/ Forget

SpecCopy == Init /\ [][NextCopy]_vars

-----------------------------------------------------------------------------
(* Properties *)

Present(f, p) == At(f, p).kind # "none"

\* the text a read of p returns in f, when the read succeeds
TextOf(f, p) == readTextFile(f, p, {}).text

CreateDirectoryError(p) ==
  [wraps |-> <<"Failed to create directory">>, cause |-> "Directory already exists",
   arg |-> <<p>>]

\* C1: on a path with no entry, fileExists, directoryExists, isFile and
\* isDirectory return false and raise nothing, although the stat of such a
\* path fails; they change nothing.
C1_AbsentIsFalse ==
  (last.op \in {"fileExists", "directoryExists", "isFile", "isDirectory"}
     /\ ~Present(pre, last.p))
  => (last.ok /\ last.bool = FALSE /\ fs = pre)

\* isFile was called on a path below a regular file, where stat fails with ENOTDIR
C1_Witness ==
  /\ last.op = "isFile"
  /\ ~Present(pre, last.p)
  /\ statSync(pre, last.p).err = "ENOTDIR"
  /\ last.bool = FALSE

\* C2 (as claimed): after a call of ensureDirectoryExists(p) that returned, a
\* second call returns too, changes nothing, and a directory is present at p.
C2_EnsureIdempotent ==
  (last.op = "ensureDirectoryExists" /\ last.ok)
  => /\ fs[last.p].kind = "dir"
     /\ \A deny \in DenyTo(last.p) :
          LET again == ensureDirectoryExists(fs, last.p, deny)
          IN  again.err = NoErr /\ again.fs = fs

\* C3: createDirectory(p) on an existing directory fails with "Failed to
\* create directory: Directory already exists: <p>" and changes nothing.
C3_CreateExistingFails ==
  (last.op = "createDirectory" /\ pre[last.p].kind = "dir")
  => (~last.ok /\ last.err = CreateDirectoryError(last.p) /\ fs = pre)

C3_Witness ==
  /\ last.op = "createDirectory"
  /\ last.p # Root
  /\ pre[last.p].kind = "dir"
  /\ last.err = CreateDirectoryError(last.p)

\* C4 (as claimed): after a successful writeTextFile(p, s), readTextFile(p)
\* returns exactly s, for every string s.
C4_RoundTripEveryString ==
  (last.op = "writeTextFile" /\ last.ok)
  => LET r == readTextFile(fs, last.p, {})
     IN  r.err = NoErr /\ r.text = last.s

\* C4 (amended): after a successful writeTextFile(p, s) the file at p holds
\* the UTF-8 encoding of s and nothing else, whatever was at p before, and
\* every ancestor of p is a directory; readTextFile(p) then returns exactly
\* s when s has no unpaired surrogate.
C4_RoundTrip ==
  (last.op = "writeTextFile" /\ last.ok)
  => /\ fs[last.p] = File(utf8Encode(last.s))
     /\ \A q \in Paths : Under(q, last.p) => fs[q].kind = "dir"
     /\ \A q \in Paths : ~IsPrefix(q, last.p) => fs[q] = pre[q]
     /\ WellFormed(last.s) =>
          LET r == readTextFile(fs, last.p, {})
          IN  r.err = NoErr /\ r.text = last.s

\* a text with a newline and a surrogate pair replaced longer content
C4_Witness ==
  /\ last.op = "writeTextFile"
  /\ last.ok
  /\ last.s \in {<<"\n", "x">>, <<"H", "L">>}
  /\ pre[last.p].kind = "file"
  /\ Len(pre[last.p].data) > Len(last.s)
  /\ TextOf(fs, last.p) = last.s

\* C5 (as claimed): appendTextFile(p, a) then appendTextFile(p, b) on a
\* fresh path reads back as a + b for all strings a and b, and an append to
\* an existing file reads back as the old text followed by the new one.
C5_AppendEveryString ==
  (last.op = "appendTextFile" /\ last.ok)
  => /\ TextOf(fs, last.p) = (IF Present(pre, last.p) THEN TextOf(pre, last.p) ELSE <<>>) \o last.s
     /\ ~Present(pre, last.p) =>
          \A b \in Texts :
            LET second == appendTextFile(fs, last.p, b, {})
            IN  second.err = NoErr => TextOf(second.fs, last.p) = last.s \o b

\* C5 (amended): an append never truncates: the file holds its old bytes
\* followed by the encoding of the appended text; when the appended texts
\* have no unpaired surrogate, the file reads back as the old text followed
\* by the appended one, and a then b on a fresh path read back as a + b.
C5_Append ==
  (last.op = "appendTextFile" /\ last.ok)
  => /\ fs[last.p] = File(At(pre, last.p).data \o utf8Encode(last.s))
     /\ WellFormed(last.s) =>
          /\ TextOf(fs, last.p)
               = (IF Present(pre, last.p) THEN TextOf(pre, last.p) ELSE <<>>) \o last.s
          /\ ~Present(pre, last.p) =>
               \A b \in Texts :
                 LET second == appendTextFile(fs, last.p, b, {})
                 IN  (WellFormed(b) /\ second.err = NoErr)
                       => TextOf(second.fs, last.p) = last.s \o b

\* the second of two appends on a path that was fresh: the file reads a + b
C5_Witness ==
  /\ last.op = "appendTextFile"
  /\ last.ok
  /\ last.s = <<"\n">>
  /\ pre[last.p] = File(<<"x">>)
  /\ TextOf(fs, last.p) = <<"x", "\n">>

\* C6: after a successful writeJsonFile(p, obj), whatever was at p before,
\* readJsonFile(p) returns a value equal to obj, member for member and item
\* for item, for every JSON value obj.
C6_JsonRoundTrip ==
  (last.op = "writeJsonFile" /\ last.ok)
  => LET r == readJsonFile(fs, last.p, {})
     IN  r.err = NoErr /\ r.value = last.data

\* an object with a key and a string that need escaping replaced another document
C6_Witness ==
  /\ last.op = "writeJsonFile"
  /\ last.ok
  /\ last.data = JObj(<<Member(<<"k">>, JStr(<<"\"">>)),
                        Member(<<"\"">>, JArr(<<JNum(10), JStr(<<"x">>)>>))>>)
  /\ pre[last.p].kind = "file"
  /\ Len(pre[last.p].data) > 0
  /\ readJsonFile(fs, last.p, {}).value = last.data

\* C7: removeFile(p) on a path with no entry returns and changes nothing; on
\* a regular file it deletes that file and nothing else, unless the OS
\* refuses the unlink; afterwards fileExists(p) is false and a second
\* removeFile(p) returns without effect.
C7_RemoveFileIdempotent ==
  (last.op = "removeFile")
  => /\ ~Present(pre, last.p) => (last.ok /\ fs = pre)
     /\ (pre[last.p].kind = "file" /\ ~last.ok) =>
          (fs = pre /\ last.err = Rethrow("Failed to remove file", OsError("EACCES")))
     /\ (pre[last.p].kind = "file" /\ last.ok) =>
          /\ fs = [pre EXCEPT ![last.p] = Absent]
          /\ ~fileExists(fs, last.p).bool
          /\ \A deny \in {{}, {last.p}} :
               LET again == removeFile(fs, last.p, deny)
               IN  again.err = NoErr /\ again.fs = fs

C7_Witness ==
  /\ last.op = "removeFile"
  /\ last.ok
  /\ pre[last.p].kind = "file"
  /\ ~Present(fs, last.p)
  /\ \E q \in Paths : q # last.p /\ fs[q].kind = "file"

\* C8: removeDirectory(p) returns and changes nothing when p is no directory
\* (also when p is a regular file); when p is a directory and the call
\* returns, nothing exists at or below p and every other path is unchanged.
C8_RemoveDirectory ==
  (last.op = "removeDirectory")
  => /\ pre[last.p].kind # "dir" => (last.ok /\ fs = pre)
     /\ (pre[last.p].kind = "dir" /\ last.ok) =>
          \A q \in Paths : fs[q] = IF IsPrefix(last.p, q) THEN Absent ELSE pre[q]
     /\ (pre[last.p].kind = "dir" /\ ~last.ok) =>
          last.err.wraps = <<"Failed to remove directory">>

\* a directory with a file two levels down was removed; a sibling stayed
C8_Witness ==
  /\ last.op = "removeDirectory"
  /\ last.ok
  /\ pre[last.p].kind = "dir"
  /\ \E q \in Paths : Len(q) = Len(last.p) + 2 /\ IsPrefix(last.p, q) /\ pre[q].kind = "file"
  /\ \E q \in Paths : ~IsPrefix(last.p, q) /\ q # Root /\ Present(fs, q)

\* src and dst name trees that do not overlap
Apart(p, q) == ~IsPrefix(p, q) /\ ~IsPrefix(q, p)

\* C9 (as claimed): after a copyDirectory(src, dst) that returned, with dst
\* outside src, every file under src is at the same relative path under dst
\* with the same content, every subdirectory of src is a directory under
\* dst, and the tree under src is unchanged.
C9_CopyReproducesTree ==
  (last.op = "copyDirectory" /\ last.ok /\ Apart(last.p, last.q))
  => \A x \in Paths :
       IsPrefix(last.p, x) =>
         /\ fs[x] = pre[x]
         /\ (x # last.p /\ pre[x].kind = "file") => At(fs, last.q \o Rel(last.p, x)) = pre[x]
         /\ (x # last.p /\ pre[x].kind = "dir") => At(fs, last.q \o Rel(last.p, x)).kind = "dir"

\* C10 (as claimed): after a moveDirectory(src, dst) on a directory src that
\* returned, src is no directory, dst is one, and the tree under dst is the
\* tree that was under src, for every dst (src below the base directory).
C10_MoveEveryDest ==
  (last.op = "moveDirectory" /\ last.ok /\ pre[last.p].kind = "dir" /\ last.p # Root)
  => /\ ~directoryExists(fs, last.p).bool
     /\ directoryExists(fs, last.q).bool
     /\ \A y \in Paths : IsPrefix(last.q, y) => fs[y] = At(pre, last.p \o Rel(last.q, y))

\* C10 (amended): the same for every dst other than src itself; a move of a
\* directory onto itself returns and leaves it where it is.  Nothing outside
\* src and dst changes but the missing ancestors of dst, which are created.
C10_Move ==
  (last.op = "moveDirectory" /\ last.ok /\ pre[last.p].kind = "dir")
  => IF last.q = last.p THEN fs = pre
     ELSE /\ ~directoryExists(fs, last.p).bool
          /\ directoryExists(fs, last.q).bool
          /\ \A y \in Paths :
               IsPrefix(last.q, y) => fs[y] = At(pre, last.p \o Rel(last.q, y))
          /\ \A y \in Paths :
               (~IsPrefix(last.q, y) /\ ~IsPrefix(last.p, y))
                 => fs[y] = IF Under(y, last.q) THEN Dir ELSE pre[y]

\* a directory holding a file was moved below a parent that did not exist
C10_Witness ==
  /\ last.op = "moveDirectory"
  /\ last.ok
  /\ last.q # last.p
  /\ ~Present(pre, getDirectoryName(last.q))
  /\ \E n \in Names : At(pre, joinPaths(last.p, n)).kind = "file"
                      /\ At(fs, joinPaths(last.q, n)) = At(pre, joinPaths(last.p, n))

\* the last segment of a path: the name of its entry
EntryName(x) == x[Len(x)]

\* the elements of a list
Range(l) == {l[i] : i \in 1..Len(l)}

\* C11: a findFiles(dir, pattern) that returns gives each regular file
\* below dir, at any depth, whose entry name contains pattern (each regular
\* file when no pattern or the empty pattern is given) once, whatever the
\* names of the directories above it, gives nothing else, and changes
\* nothing.
C11_FindFilesExact ==
  (last.op = "findFiles" /\ last.ok)
  => /\ Range(last.list)
          = {x \in Paths : Under(last.p, x) /\ pre[x].kind = "file"
                            /\ (last.pattern.given =>
                                  Includes(NameText(EntryName(x)), last.pattern.text))}
     /\ Cardinality(Range(last.list)) = Len(last.list)
     /\ fs = pre

\* a file was found two levels down, below a directory whose name does not
\* contain the pattern, and a directory whose name does was not returned
C11_Witness ==
  /\ last.op = "findFiles"
  /\ last.ok
  /\ last.p = Root
  /\ last.pattern = Pattern(<<"a">>)
  /\ <<"b", "a">> \in Range(last.list)
  /\ pre[<<"a">>].kind = "dir"
  /\ Len(last.list) >= 2

\* C12: a findDirectories(dir, pattern) that returns gives each directory
\* strictly below dir whose entry name contains pattern once, whatever the
\* names of the directories above it, never dir itself nor a regular file,
\* and each directory before every directory below it.
C12_FindDirectoriesPreOrder ==
  (last.op = "findDirectories" /\ last.ok)
  => /\ Range(last.list)
          = {x \in Paths : Under(last.p, x) /\ pre[x].kind = "dir"
                            /\ (last.pattern.given =>
                                  Includes(NameText(EntryName(x)), last.pattern.text))}
     /\ Cardinality(Range(last.list)) = Len(last.list)
     /\ \A i \in 1..Len(last.list), j \in 1..Len(last.list) :
          Under(last.list[i], last.list[j]) => i < j
     /\ fs = pre

\* a matching directory was found below a directory that does not match,
\* and a matching directory came before a matching directory below it
C12_Witness ==
  /\ last.op = "findDirectories"
  /\ last.ok
  /\ last.p = Root
  /\ last.pattern = Pattern(<<"a">>)
  /\ <<"b", "a">> \in Range(last.list)
  /\ \E i \in 1..Len(last.list), j \in 1..Len(last.list) :
       Under(last.list[i], last.list[j])

IsEmptyDirectoryError(p) ==
  [wraps |-> <<"Failed to check if directory is empty">>,
   cause |-> "Directory does not exist", arg |-> <<p>>]

C14_SanitizedSafe ==
  (last.op = "sanitizeFilename")
  => /\ Len(last.text) <= NameMax
     /\ \A i \in 1..Len(last.text) : last.text[i] \notin InvalidChars \cup SpaceChars

\* a name longer than the limit, with a slash and a space in it, was cut to the limit
C14_Witness ==
  /\ last.op = "sanitizeFilename"
  /\ Len(last.s) > NameMax
  /\ \E i \in 1..Len(last.s) : last.s[i] = "/"
  /\ \E i \in 1..Len(last.s) : last.s[i] = " "
  /\ Len(last.text) = NameMax

\* C15 (as claimed): the output of sanitizeFilename neither starts nor ends
\* with a hyphen and has no two hyphens side by side, whatever the length of
\* the input.
C15_NoEdgeHyphens ==
  (last.op = "sanitizeFilename" /\ last.text # <<>>)
  => /\ last.text[1] # "-"
     /\ last.text[Len(last.text)] # "-"
     /\ \A i \in 1..(Len(last.text) - 1) : ~(last.text[i] = "-" /\ last.text[i + 1] = "-")

\* the directory a path text names: whether it is absolute, and its segments
DirOf(d) ==
  LET isAbsolute == d # <<>> /\ d[1] = "/"
  IN  <<isAbsolute, NormalizeSegments(Split(d), 1, <<>>, ~isAbsolute)>>

\* the result r of changing the extension of path to e keeps the directory
\* and the stem of path and ends with "." and e
KeepsDirAndStem(path, e, r) ==
  /\ DirOf(pathParse(r).dir) = DirOf(pathParse(path).dir)
  /\ pathParse(r).base = pathParse(path).name \o <<".">> \o e

\* C16 (as claimed): for every path p and every extension e that does not
\* start with a dot, changeFileExtension(p, e) equals
\* changeFileExtension(p, "." + e), keeps the directory and the stem of p and
\* ends with "." + e.
C16_EveryExtension ==
  (last.op = "changeFileExtension" /\ (last.t = <<>> \/ last.t[1] # "."))
  => /\ last.text = changeFileExtension(last.s, <<".">> \o last.t)
     /\ KeepsDirAndStem(last.s, last.t, last.text)

\* C16 (amended): the same for every extension e that does not start with a
\* dot and has no path separator in it, when the new last segment, the stem
\* of p then "." then e, is neither "." nor ".."; the result is always
\* path.join of the directory of p and that segment.
C16_ChangeExtension ==
  (last.op = "changeFileExtension" /\ (last.t = <<>> \/ last.t[1] # "."))
  => /\ last.text = changeFileExtension(last.s, <<".">> \o last.t)
     /\ last.text = pathJoin(pathParse(last.s).dir, pathParse(last.s).name \o <<".">> \o last.t)
     /\ ((\A i \in 1..Len(last.t) : last.t[i] # "/")
          /\ pathParse(last.s).name \o <<".">> \o last.t \notin {<<".">>, <<".", ".">>})
        => KeepsDirAndStem(last.s, last.t, last.text)

\* "/x/x.x" with extension "xx" became "/x/x.xx"
C16_Witness ==
  /\ last.op = "changeFileExtension"
  /\ last.s = <<"/", "x", "/", "x">>
  /\ last.t = <<"x", "x">>
  /\ last.text = <<"/", "x", "/", "x", ".", "x", "x">>

\* the codes the write of a file at p may report in f, the file refused to
\* the process or not
WriteCauses(f, p) == {OpenForWrite(f, p, deny) : deny \in {{}, {p}}} \ {""}

RenameCauses(f, p, q) == {renameSync(f, p, q, deny).err : deny \in {{}, {p}, {q}}} \ {""}

\* what C18 says of a failed moveFile and of renameFile
MoveFileErrors ==
  /\ (last.op = "moveFile" /\ ~last.ok /\ existsSync(fs, getDirectoryName(last.q)))
     => /\ \E c \in RenameCauses(fs, last.p, last.q) :
             last.err = [wraps |-> <<"Failed to move file", "Failed to rename file">>,
                         cause |-> c, arg |-> <<>>]
        /\ pre[last.p].kind = "file" => fs[last.p] = pre[last.p]
  /\ (last.op = "moveFile" /\ ~last.ok /\ ~existsSync(fs, getDirectoryName(last.q)))
     => /\ last.err.wraps = <<"Failed to move file", "Failed to create directory">>
        /\ pre[last.p].kind = "file" => fs[last.p] = pre[last.p]
  /\ (last.op = "renameFile" /\ pre[getDirectoryName(last.q)].kind # "dir")
     => /\ ~last.ok
        /\ last.err.wraps = <<"Failed to rename file">>
        /\ fs = pre
  /\ last.op = "renameFile"
     => \A r \in Paths : fs[r].kind = "dir" /\ pre[r].kind # "dir" => IsPrefix(last.q, r)

\* the file of sourcePath is at destPath, below directories, and nothing but
\* the two paths and the directories above destPath has changed
Moved ==
  /\ fs[last.q] = pre[last.p]
  /\ fs[last.p].kind = "none"
  /\ \A r \in Paths : Under(r, last.q) => fs[r].kind = "dir"
  /\ \A r \in Paths : r # last.p /\ ~IsPrefix(r, last.q) => fs[r] = pre[r]

\* C18 (as claimed): after every successful moveFile(source, dest) of a file
\* the file is at dest with its content, below directories made where they
\* were missing, and no longer at source; a failed rename gives "Failed to
\* move file: Failed to rename file: c"; renameFile makes no directory and
\* fails when the parent of newPath is missing.
C18_MoveEveryDest ==
  /\ (last.op = "moveFile" /\ last.ok /\ pre[last.p].kind = "file") => Moved
  /\ MoveFileErrors

\* C18 (amended): the same, the file being at dest and no longer at source
\* when dest differs from source; moveFile(source, source) of a file
\* succeeds and changes nothing.
C18_MoveFile ==
  /\ (last.op = "moveFile" /\ last.ok /\ pre[last.p].kind = "file")
     => IF last.q = last.p THEN fs = pre ELSE Moved
  /\ MoveFileErrors

\* a file with content moved below two directories that were missing
C18_Witness ==
  /\ last.op = "moveFile"
  /\ last.ok
  /\ pre[last.p] = File(<<"x">>)
  /\ Len(last.q) = 3
  /\ pre[SubSeq(last.q, 1, 1)].kind = "none"
  /\ fs[last.q] = File(<<"x">>)
  /\ fs[last.p].kind = "none"

\* C19: isWritable(dir) never raises; it returns true exactly when the write
\* of the probe file in dir and the unlink of it both succeed, and false
\* when dir is no directory, when the probe is refused to the write or to the
\* unlink, and when the disk is full.
C19_IsWritable ==
  last.op = "isWritable"
  => LET testFile == joinPaths(last.p, WriteTest)
         w == writeFileSync(pre, testFile, TestText, last.deny)
         u == unlinkSync(w.fs, testFile, last.denyUnlink)
     IN  /\ last.ok
         /\ last.bool <=> (w.err = "" /\ u.err = "")
         /\ pre[last.p].kind # "dir" => ~last.bool
         /\ testFile \in last.deny \cup last.denyUnlink => ~last.bool
         /\ (Count(pre) >= MaxEntries /\ At(pre, testFile).kind = "none") => ~last.bool

\* a directory below the base directory was found writable
C19_Witness ==
  /\ last.op = "isWritable"
  /\ last.p # Root
  /\ last.bool
  /\ fs = pre

\* C20: when source is not an existing directory, copyDirectory(source, dest)
\* fails with "Failed to copy directory: Source directory does not exist:
\* <source>" and moveDirectory(source, dest) with "Failed to move directory:
\* Source directory does not exist: <source>", and the filesystem is as it
\* was: neither dest nor its parent is made.
C20_SourceChecked ==
  (last.op \in {"copyDirectory", "moveDirectory"} /\ pre[last.p].kind # "dir")
  => /\ ~last.ok
     /\ last.err = [wraps |-> <<IF last.op = "copyDirectory" THEN "Failed to copy directory"
                                ELSE "Failed to move directory">>,
                    cause |-> "Source directory does not exist",
                    arg |-> <<last.p>>]
     /\ fs = pre

\* a copy from a source that is not there to a destination that is not
\* there, below a parent that is not there
C20_Witness ==
  /\ last.op = "copyDirectory"
  /\ pre[last.p].kind = "none"
  /\ pre[getDirectoryName(last.q)].kind = "none"
  /\ ~last.ok
  /\ fs[last.q].kind = "none"

\* caller 1 is in a copy
Copying == run[1].pc = "copy"

\* the steps a copy of the directory d of f takes when nothing fails: one to
\* enter it, one for each file, one more for each subdirectory than the copy
\* of the subdirectory takes, one to return
RECURSIVE Work(_, _)
Work(f, d) ==
  LET Cost(n) == IF At(f, joinPaths(d, n)).kind = "none" THEN 0
                 ELSE IF At(f, joinPaths(d, n)).kind = "dir" THEN 1 + Work(f, joinPaths(d, n))
                 ELSE 1
  IN  2 + Cost("a") + Cost("b")

\* the steps the activations from k on have left in f
RECURSIVE WorkLeft(_, _, _)
WorkLeft(f, frames, k) ==
  IF k > Len(frames) THEN 0
  ELSE LET act == frames[k]
           from == IF k = Len(frames) THEN act.i ELSE act.i + 1
           Cost(j) == IF At(f, joinPaths(act.sourceDir, act.contents[j])).kind = "dir"
                      THEN 1 + Work(f, joinPaths(act.sourceDir, act.contents[j]))
                      ELSE 1
           RECURSIVE Sum(_)
           Sum(j) == IF j > Len(act.contents) THEN 0 ELSE Cost(j) + Sum(j + 1)
       IN  (IF act.i = 0 THEN Work(f, act.sourceDir) ELSE 1 + Sum(from))
           + WorkLeft(f, frames, k + 1)

CopiesOnly(r) ==
  \/ fs'[r] = fs[r]
  \/ Under(r, run[1].q) /\ fs'[r] = Dir
  \/ /\ IsPrefix(run[1].q, r)
     /\ fs'[r].kind # "none"
     /\ fs'[r] = At(fs, run[1].p \o Rel(run[1].q, r))

\* a failed copy has raised the error of copyDirectory and has stopped
CopyRaised ==
  (last.op = "copyDirectory" /\ ~last.ok)
  => /\ last.err.wraps[1] = "Failed to copy directory"
     /\ ~Copying

C23_CreateMakesDirectory ==
  (last.op = "createDirectory" /\ last.ok)
  => (fs[last.p].kind = "dir" /\ pre[last.p].kind = "none")

\* C24: isWritable(dir) leaves dir as it was, whatever it returns: no probe
\* file is there afterwards, also when the unlink of the probe fails, and a
\* file that had the name of the probe before the call is there with its
\* content.
C24_ProbeLeavesNoTrace ==
  last.op = "isWritable" => fs = pre

\* the prefix each operation puts before the message of what it catches
OwnPrefix(op) ==
  CASE op = "ensureDirectoryExists" -> "Failed to create directory"
    [] op = "createDirectory" -> "Failed to create directory"
    [] op = "writeTextFile" -> "Failed to write text file"
    [] op = "appendTextFile" -> "Failed to append to text file"
    [] op = "copyFile" -> "Failed to copy file"
    [] op = "moveFile" -> "Failed to move file"
    [] op = "copyDirectory" -> "Failed to copy directory"
    [] op = "moveDirectory" -> "Failed to move directory"
    [] op = "findFiles" -> "Failed to find files"
    [] op = "findDirectories" -> "Failed to find directories"
    [] op = "isEmptyDirectory" -> "Failed to check if directory is empty"
    [] OTHER -> ""

\* the prefixes of the operations that op calls inside its own try block
InnerPrefixes(op) ==
  CASE op \in {"createDirectory", "writeTextFile", "appendTextFile", "copyFile",
               "moveDirectory"} -> {"Failed to create directory"}
    [] op = "copyDirectory" -> {"Failed to create directory", "Failed to read directory"}
    [] op = "isEmptyDirectory" -> {"Failed to read directory"}
    [] op = "moveFile" -> {"Failed to create directory", "Failed to rename file"}
    [] OTHER -> {}

\* the operations that call themselves inside their own try block
CallsItself(op) == op \in {"copyDirectory", "findFiles", "findDirectories"}

\* the number of leading prefixes of w that are prefix
RECURSIVE Leading(_, _)
Leading(prefix, w) ==
  IF w # <<>> /\ Head(w) = prefix THEN 1 + Leading(prefix, Tail(w)) ELSE 0

Failed == last.op # "none" /\ ~last.ok

\* C25 as stated: only writeJsonFile and moveFile nest messages; the message
\* of every other failed operation is its one prefix followed directly by
\* the cause.
C25_OnePrefix ==
  (Failed /\ last.op \notin {"writeJsonFile", "moveFile"})
  => last.err.wraps = <<OwnPrefix(last.op)>>

\* C25: the message of a failed operation starts with that operation's own
\* prefix, repeated once per level for the operations that call themselves
\* (copyDirectory, findFiles, findDirectories) and once otherwise; what
\* follows is the cause, or the prefix of an operation called inside the try
\* block ("Failed to create directory" of ensureDirectoryExists, "Failed to
\* read directory" of getDirectoryContents, "Failed to rename file" of
\* renameFile) and then the cause.  A createDirectory whose mkdir fails
\* always carries its prefix twice.
C25_PrefixPerCatch ==
  Failed =>
    LET w == last.err.wraps
        n == Leading(OwnPrefix(last.op), w)
        rest == SubSeq(w, n + 1, Len(w))
    IN  /\ n >= 1
        /\ last.op = "createDirectory" =>
              \/ w = <<"Failed to create directory">> /\ last.err.cause = "Directory already exists"
              \/ w = <<"Failed to create directory", "Failed to create directory">>
                   /\ last.err.cause # "Directory already exists"
        /\ last.op # "createDirectory" =>
              /\ ~CallsItself(last.op) => n = 1
              /\ rest = <<>> \/ (Len(rest) = 1 /\ rest[1] \in InnerPrefixes(last.op))

\* a copy that fails two levels down, where the directory for the
\* destination cannot be made
C25_Witness ==
  /\ last.op = "copyDirectory"
  /\ last.err.wraps = <<"Failed to copy directory", "Failed to copy directory",
                         "Failed to create directory">>

\* C26: when moveFile, copyFile, writeTextFile or appendTextFile raises,
\* every path has the existence, type and content it had before the call;
\* no directory on the way to the destination has been created.
C26_FailureChangesNothing ==
  (Failed /\ last.op \in {"moveFile", "copyFile", "writeTextFile", "appendTextFile"})
  => fs = pre

BothDone == \A c \in Callers : run[c].pc = "done"

\* the two callers made the same call op(p), begun in a tree where one such
\* call alone returns
SameCall(op) ==
  /\ BothDone
  /\ \A c \in Callers : run[c].op = op /\ run[c].p = run[1].p

\* C27: when two callers run removeFile(p) on an existing file, or
\* ensureDirectoryExists(p) on a missing directory that one call can make,
\* with their steps interleaved, neither call raises and the tree is what
\* one call leaves: the file absent, the directory present.
C27_AbsenceNeverAnError ==
  /\ (SameCall("removeFile") /\ pre[run[1].p].kind = "file")
     => /\ \A c \in Callers : run[c].err = NoErr
        /\ fs = removeFile(pre, run[1].p, {}).fs
        /\ fs[run[1].p].kind = "none"
  /\ (SameCall("ensureDirectoryExists") /\ pre[run[1].p].kind = "none"
        /\ ensureDirectoryExists(pre, run[1].p, {}).err = NoErr)
     => /\ \A c \in Callers : run[c].err = NoErr
        /\ fs = ensureDirectoryExists(pre, run[1].p, {}).fs
        /\ fs[run[1].p].kind = "dir"

\* the half of C27 about ensureDirectoryExists: whichever caller's mkdir comes
\* second finds the directory and returns
EnsureRaceIsSafe ==
  (SameCall("ensureDirectoryExists") /\ pre[run[1].p].kind = "none"
     /\ ensureDirectoryExists(pre, run[1].p, {}).err = NoErr)
  => /\ \A c \in Callers : run[c].err = NoErr
     /\ fs = ensureDirectoryExists(pre, run[1].p, {}).fs

\* both callers passed the check before either made the directory
EnsureRaceHappens ==
  /\ SameCall("ensureDirectoryExists")
  /\ pre[run[1].p].kind = "none"
  /\ \A c \in Callers : ~run[c].found /\ run[c].err = NoErr
====
